---- MODULE Spec2Model ----
(***************************************************************************)
(* OpenCodeRouter: the backend registry (internal/registry/registry.go),   *)
(* its locking, the scanner that fills it (internal/scanner/scanner.go)    *)
(* and the router that reads it (internal/proxy/router.go).                *)
(*                                                                         *)
(* Strings are sequences of one-character strings, so that Slugify and the *)
(* "%s-%d" disambiguation of Upsert are computed character by character.   *)
(* Time is the reading of the clock: every operation that calls time.Now   *)
(* or time.Since takes a reading t >= now, and now becomes t.              *)
(***************************************************************************)
EXTENDS Integers, Sequences, FiniteSets

VARIABLES
    \* the registry: slug -> Backend, port -> slug, the clock, the last call
    backends, byPort, now, last,
    \* the registry's memory as its statements leave it, its RWMutex, and the
    \* goroutines calling it
    heap, mu, threads,
    \* the scanner: its position in Run/scan, the probe goroutines, the
    \* semaphore and WaitGroup of every pass, whether ctx is cancelled, and
    \* the ports where an instance listens
    scanner, probes, passes, ctxDone, answering,
    \* the advertiser: slug -> handle of the live registration, every handle
    \* it ever obtained, and the record of its last call
    servers, handles, advLast,
    \* main: its position in the shutdown sequence, and the goroutine of its
    \* mDNS sync loop
    mainPc, syncLoop,
    \* the launcher: its position in Launch, the processes it manages, and
    \* the ports of localhost where something listens
    launcher, procs, inUse,
    \* the router: the request being served and its answer
    request, response,
    \* a call of a pure function: its argument and its result
    arg, out

registryVars == <<backends, byPort, now, last>>
lockVars == <<heap, mu, threads>>
scanVars == <<scanner, probes, passes, ctxDone, answering>>
routerVars == <<request, response>>
advVars == <<servers, handles, advLast, mainPc, syncLoop>>
launchVars == <<launcher, procs, inUse>>
pureVars == <<arg, out>>

vars == <<backends, byPort, now, last, heap, mu, threads,
          scanner, probes, passes, ctxDone, answering, servers, handles,
          advLast, mainPc, syncLoop, launcher, procs, inUse, request, response,
          arg, out>>

(***************************************************************************)
(* Bounds of the model.                                                    *)
(***************************************************************************)
\* ports are 1..MaxPort
MaxPort == 3
\* ScanConcurrency of the configuration main runs the scanner with
ScanConcurrency == 1
\* clock readings are 0..MaxTime
MaxTime == 1

\* Registry.staleAfter as given to New, in units of the clock
StaleAfter == 0

Ports == 1..MaxPort
Times == 0..MaxTime

(***************************************************************************)
(* Inputs of Upsert.  PathA and PathB are different projects with the same *)
(* slug "p"; PathX is a project whose own slug is "p-1", the slug Upsert   *)
(* makes up for a collision on "p" at port 1.                              *)
(***************************************************************************)
PathA == <<"/", "a", "/", "p">>
PathB == <<"/", "b", "/", "P">>
PathX == <<"/", "x", "/", "p", "_", "1">>
Paths == {PathA, PathB, PathX}

\* a project whose folder is named api, as the router may meet
PathApi == <<"/", "w", "/", "a", "p", "i">>

\* what the instances report: the scanner names a project after the last
\* element of its path
Projects == {[name |-> <<"p">>, path |-> PathA, version |-> "v1"],
             [name |-> <<"P">>, path |-> PathB, version |-> "v2"],
             [name |-> <<"p", "_", "1">>, path |-> PathX, version |-> "v1"]}

(***************************************************************************)
(* Characters.                                                             *)
(***************************************************************************)
LowerChars == <<"a", "b", "c", "d", "e", "f", "g", "h", "i", "j", "k", "l", "m",
                "n", "o", "p", "q", "r", "s", "t", "u", "v", "w", "x", "y", "z">>
UpperChars == <<"A", "B", "C", "D", "E", "F", "G", "H", "I", "J", "K", "L", "M",
                "N", "O", "P", "Q", "R", "S", "T", "U", "V", "W", "X", "Y", "Z">>
DigitChars == <<"0", "1", "2", "3", "4", "5", "6", "7", "8", "9">>

Range(s) == {s[i] : i \in DOMAIN s}

\* strings.ToLower, one character
ToLowerChar(c) ==
    IF c \in Range(UpperChars)
    THEN LowerChars[CHOOSE i \in DOMAIN UpperChars : UpperChars[i] = c]
    ELSE c

\* strings.ToLower
ToLower(s) == [i \in DOMAIN s |-> ToLowerChar(s[i])]

\* the class [a-z0-9-] of the regexp nonAlphaNum
SlugChar(c) == c \in Range(LowerChars) \cup Range(DigitChars) \cup {"-"}

\* fmt.Sprintf("%d", n) for n >= 0
RECURSIVE Itoa(_)
Itoa(n) ==
    IF n < 10 THEN <<DigitChars[n + 1]>>
    ELSE Itoa(n \div 10) \o <<DigitChars[(n % 10) + 1]>>

(***************************************************************************)
(* Slugify and what it calls.                                              *)
(***************************************************************************)
\* the loop of filepath.Base that strips trailing separators
RECURSIVE StripTrailingSlashes(_)
StripTrailingSlashes(s) ==
    IF Len(s) > 0 /\ s[Len(s)] = "/"
    THEN StripTrailingSlashes(SubSeq(s, 1, Len(s) - 1))
    ELSE s

\* the index of the last "/" of s, 0 when there is none
LastSlash(s) ==
    IF \E i \in DOMAIN s : s[i] = "/"
    THEN CHOOSE i \in DOMAIN s :
            s[i] = "/" /\ \A j \in DOMAIN s : s[j] = "/" => j <= i
    ELSE 0

\* filepath.Base on a system whose separator is "/"
Base(path) ==
    IF path = <<>> THEN <<".">>
    ELSE LET stripped == StripTrailingSlashes(path)
             elem == SubSeq(stripped, LastSlash(stripped) + 1, Len(stripped))
         IN  IF elem = <<>> THEN <<"/">> ELSE elem

\* nonAlphaNum.ReplaceAllString(s, "-")
ReplaceNonAlphaNum(s) == [i \in DOMAIN s |-> IF SlugChar(s[i]) THEN s[i] ELSE "-"]

\* multiHyphen.ReplaceAllString(s, "-")
RECURSIVE CollapseHyphens(_)
CollapseHyphens(s) ==
    IF Len(s) < 2 THEN s
    ELSE IF s[1] = "-" /\ s[2] = "-" THEN CollapseHyphens(Tail(s))
    ELSE <<s[1]>> \o CollapseHyphens(Tail(s))

RECURSIVE TrimLeftHyphens(_)
TrimLeftHyphens(s) ==
    IF Len(s) > 0 /\ s[1] = "-" THEN TrimLeftHyphens(Tail(s)) ELSE s

RECURSIVE TrimRightHyphens(_)
TrimRightHyphens(s) ==
    IF Len(s) > 0 /\ s[Len(s)] = "-"
    THEN TrimRightHyphens(SubSeq(s, 1, Len(s) - 1))
    ELSE s

\* strings.Trim(s, "-")
\* mutant: only the leading hyphens are trimmed
TrimHyphensLeftOnly(s) == TrimLeftHyphens(s)

TrimHyphens(s) == TrimRightHyphens(TrimLeftHyphens(s))

DefaultSlug == <<"d", "e", "f", "a", "u", "l", "t">>

Slugify(projectPath) ==
    LET base == Base(projectPath)
        slug == TrimHyphens(CollapseHyphens(ReplaceNonAlphaNum(ToLower(base))))
    IN  IF slug = <<>> THEN DefaultSlug ELSE slug

\* Slugify on the input paths, computed once
\* the path probePort makes up for an instance that gives no project
UnknownPath(port) == <<"/", "u", "n", "k", "n", "o", "w", "n", "/", "p", "o", "r", "t", "-">> \o Itoa(port)

\* probePort, line 141: the path made up for a project that reports none
UnknownIdPath(id) == <<"/", "u", "n", "k", "n", "o", "w", "n", "/">> \o id

\* the instances the scanner meets, port after port: what /project/current
\* and /global/health report.  The second reports no path.
ScanInstances ==
    <<[id |-> <<"i", "1">>, path |-> PathA, version |-> "v1"],
      [id |-> <<"p", "_", "3">>, path |-> <<>>, version |-> "v2"],
      [id |-> <<"i", "3">>, path |-> PathB, version |-> "v1"]>>

SlugOf ==
    [p \in Paths \cup {PathApi} \cup {UnknownPath(port) : port \in Ports}
            \cup {UnknownIdPath(ScanInstances[i].id) : i \in DOMAIN ScanInstances}
        |-> Slugify(p)]

\* Slugify of any path, the paths of the model being remembered
SlugFor(projectPath) ==
    IF projectPath \in DOMAIN SlugOf THEN SlugOf[projectPath]
    ELSE Slugify(projectPath)

(***************************************************************************)
(* Go maps as functions: m[k] = v and delete(m, k).                        *)
(***************************************************************************)
MapPut(m, k, v) == [x \in DOMAIN m \cup {k} |-> IF x = k THEN v ELSE m[x]]
MapDelete(m, k) == [x \in DOMAIN m \ {k} |-> m[x]]
EmptyMap == [x \in {} |-> x]

(***************************************************************************)
(* Registry.                                                               *)
(***************************************************************************)
Backend(port, projectName, projectPath, slug, version, lastSeen) ==
    [Port |-> port, ProjectName |-> projectName, ProjectPath |-> projectPath,
     Slug |-> slug, Version |-> version, LastSeen |-> lastSeen]

\* the record of the last call: its arguments, the branches it took and
\* what it returned
Call(op, port, name, path, version, changed, collided, isNew, removed) ==
    [op |-> op, port |-> port, name |-> name, path |-> path, version |-> version,
     changed |-> changed, collided |-> collided, isNew |-> isNew,
     removed |-> removed]

NoCall == Call("New", 0, <<>>, <<>>, "", FALSE, FALSE, FALSE, {})

Init ==
    /\ backends = EmptyMap
    /\ byPort = EmptyMap
    /\ now = 0
    /\ last = NoCall

(***************************************************************************)
(* The other components before they start.                                 *)
(***************************************************************************)
\* the goroutines that call the registry concurrently
Writers == {"w1", "w2"}
Readers == {"r1"}
Threads == Writers \cup Readers

\* a goroutine outside the registry
IdleThread == [pc |-> "idle"]

\* New: empty maps, a free mutex
InitLocks ==
    /\ heap = [backends |-> EmptyMap, byPort |-> EmptyMap]
    /\ mu = [writer |-> "none", readers |-> {}]
    /\ threads = [th \in Threads |-> IdleThread]

\* scanner.New: Run not yet called, no pass, no goroutine, ctx live
InitScannerWith(concurrency) ==
    /\ scanner = [pc |-> "new", pass |-> 0, port |-> 0,
                  concurrency |-> concurrency]
    /\ probes = EmptyMap
    /\ passes = EmptyMap
    /\ ctxDone = FALSE
    /\ answering = DOMAIN ScanInstances

InitScanner == InitScannerWith(ScanConcurrency)

NoRequest == [method |-> "", host |-> <<>>, path |-> <<>>,
              qpath |-> <<>>, qname |-> <<>>]
NoResponse == [kind |-> "none"]

\* no request served yet
InitRouter ==
    /\ request = NoRequest
    /\ response = NoResponse

\* no pure function called yet
NoArg == [fn |-> "none"]
NoOut == [done |-> FALSE]

InitPure ==
    /\ arg = NoArg
    /\ out = NoOut

\* discovery.New: no service is advertised
NoSync ==
    [op |-> "New", snapshot |-> <<>>, again |-> FALSE, removed |-> {},
     tried |-> {}, failed |-> {}]

InitAdvertiser ==
    /\ servers = EmptyMap
    /\ handles = <<>>
    /\ advLast = NoSync
    /\ mainPc = "serving"
    /\ syncLoop = [pc |-> "select", snapshot |-> <<>>]

\* launcher.New: no process is managed; Launch has not been called
Idle == [pc |-> "idle", paths |-> <<>>, nextPort |-> 0, err |-> FALSE]

InitLauncher ==
    /\ launcher = Idle
    /\ procs = <<>>
    /\ inUse = {}

\* the whole program as main has built it, nothing started yet
Start ==
    Init /\ InitLocks /\ InitScanner /\ InitAdvertiser /\ InitLauncher
         /\ InitRouter /\ InitPure

\* mutant: a change of project on a port goes unnoticed
ProjectChangedNever(port, slug) == FALSE

\* Upsert, lines 54-58: the port was registered under a different slug
ProjectChanged(port, slug) == port \in DOMAIN byPort /\ byPort[port] # slug

\* mutant: the Backend of the project the port served before is kept
DropChangedProjectKeepsOld(port, slug) == backends

\* Upsert, line 56
DropChangedProject(port, slug) ==
    IF ProjectChanged(port, slug) THEN MapDelete(backends, byPort[port])
    ELSE backends

\* mutant: only an equal project_path makes an update in place
SameBackendPathOnly(existing, port, projectPath) ==
    existing.ProjectPath = projectPath

\* mutant: whatever holds the slug is updated in place
SameBackendAnyHolder(existing, port, projectPath) == TRUE

\* Upsert, line 63: the existing backend is updated in place
SameBackend(existing, port, projectPath) ==
    existing.ProjectPath = projectPath \/ existing.Port = port

\* mutant: the port is left out of the disambiguated slug
CollisionSlugNoPort(slug, port) == slug \o <<"-">>

\* Upsert, line 78
CollisionSlug(slug, port) == slug \o <<"-">> \o Itoa(port)

Upsert(port, projectName, projectPath, version, t) ==
    LET slug == SlugOf[projectPath]
        kept == DropChangedProject(port, slug)
        found == slug \in DOMAIN kept
    IN  /\ now' = t
        /\ IF found /\ SameBackend(kept[slug], port, projectPath)
           THEN LET existing == kept[slug]
                    ports == IF existing.Port # port
                             THEN MapDelete(byPort, existing.Port)
                             ELSE byPort
                IN  /\ backends' = MapPut(kept, slug,
                           Backend(port, projectName, projectPath,
                                   existing.Slug, version, t))
                    /\ byPort' = MapPut(ports, port, slug)
                    /\ last' = Call("Upsert", port, projectName, projectPath,
                                    version, ProjectChanged(port, slug), FALSE,
                                    FALSE, {})
           ELSE LET key == IF found THEN CollisionSlug(slug, port) ELSE slug
                IN  /\ backends' = MapPut(kept, key,
                           Backend(port, projectName, projectPath, key,
                                   version, t))
                    /\ byPort' = MapPut(byPort, port, key)
                    /\ last' = Call("Upsert", port, projectName, projectPath,
                                    version, ProjectChanged(port, slug), found,
                                    TRUE, {})

\* mutant: a Backend is stale at the threshold already
StaleAtThreshold(b, t) == t - b.LastSeen >= StaleAfter

\* mutant: no Backend is ever taken for stale
StaleNever(b, t) == FALSE

\* Prune, line 102
Stale(b, t) == t - b.LastSeen > StaleAfter

Prune(t) ==
    LET stale == {s \in DOMAIN backends : Stale(backends[s], t)}
        stalePorts == {backends[s].Port : s \in stale}
    IN  /\ now' = t
        /\ backends' = [s \in DOMAIN backends \ stale |-> backends[s]]
        /\ byPort' = [p \in DOMAIN byPort \ stalePorts |-> byPort[p]]
        /\ last' = Call("Prune", 0, <<>>, <<>>, "", FALSE, FALSE, FALSE, stale)

\* the clock readings a call can take: time stands still or advances by one
Readings == {now, now + 1} \cap Times

\* a probe of the scanner, or any other caller, upserts what an instance reports
UpsertCall ==
    /\ \E port \in Ports, project \in Projects, t \in Readings :
            Upsert(port, project.name, project.path, project.version, t)
    /\ UNCHANGED <<lockVars, scanVars, routerVars, pureVars, advVars, launchVars>>

\* the scanner prunes at the end of a pass
PruneCall ==
    /\ \E t \in Readings : Prune(t)
    /\ UNCHANGED <<lockVars, scanVars, routerVars, pureVars, advVars, launchVars>>

Next == UpsertCall \/ PruneCall

\* the registry on its own: nothing else runs
Spec ==
    Start /\ [][Next]_vars

(***************************************************************************)
(* The read operations, as functions of the state.                         *)
(***************************************************************************)
Miss == [ok |-> FALSE]
Hit(b) == [ok |-> TRUE, b |-> b]

Lookup(slug) == IF slug \in DOMAIN backends THEN Hit(backends[slug]) ELSE Miss

\* LookupByPort dereferences r.backends[slug] without a check: for a port
\* whose slug has no Backend it panics on a nil pointer and returns nothing
LookupByPort(port) ==
    IF port \notin DOMAIN byPort THEN Miss
    ELSE IF byPort[port] \in DOMAIN backends THEN Hit(backends[byPort[port]])
    ELSE [ok |-> FALSE, panic |-> TRUE]

\* Slugs, as a set
Slugs == DOMAIN backends

\* mutant: the slug of the path is tried before the exact project_path
LookupByPathSlugFirst(projectPath) ==
    IF SlugFor(projectPath) \in Slugs
    THEN {Hit(backends[SlugFor(projectPath)])}
    ELSE IF \E s \in Slugs : backends[s].ProjectPath = projectPath
    THEN {Hit(backends[s]) : s \in {u \in Slugs : backends[u].ProjectPath = projectPath}}
    ELSE {Miss}

\* LookupByPath: the results it can return.  The exact match ranges over a
\* Go map, so with several Backends of that project_path it returns any one
LookupByPath(projectPath) ==
    LET exact == {s \in Slugs : backends[s].ProjectPath = projectPath}
    IN  IF exact # {} THEN {Hit(backends[s]) : s \in exact}
        ELSE {Lookup(SlugFor(projectPath))}

\* Len
RegistryLen == Cardinality(Slugs)

\* All: the Backends of the snapshot
All == {backends[s] : s \in Slugs}

(***************************************************************************)
(* The read operations as calls.  A *Backend handed to a caller is either  *)
(* a pointer to a fresh copy or a pointer into the registry's own memory;  *)
(* the caller then writes through every pointer it was given.              *)
(***************************************************************************)
\* mutant: the registry's own record is handed out
PointerTo(b) == [b |-> b, shared |-> TRUE]

\* copy := *b; return &copy   (a Backend has no pointer fields)
CopyOf(b) == [b |-> b, shared |-> FALSE]

\* the Backends of a lookup's result
Found(r) == IF r.ok THEN {r.b} ELSE {}

\* what TestAll_ReturnsCopies does to a record it was given
MutatedPort == 9999
Mutated(b) == [b EXCEPT !.Port = MutatedPort]

\* the registry's records after the caller wrote through the pointers
WriteThrough(ptrs) ==
    [s \in Slugs |-> IF \E p \in ptrs : p.shared /\ p.b.Slug = s
                     THEN Mutated(backends[s]) ELSE backends[s]]

ReadOps == {"Lookup", "LookupByPort", "LookupByPath", "All", "Slugs", "Len"}

\* a read that may return any of the sets of Backends in results, followed
\* by the caller's mutation of what it got; reads take no clock reading
Read(op, results) ==
    \E bs \in results :
        /\ backends' = WriteThrough({CopyOf(b) : b \in bs})
        /\ UNCHANGED <<byPort, now, advVars, launchVars>>
        /\ last' = Call(op, 0, "", <<>>, "", FALSE, FALSE, FALSE, {})

LookupCall ==
    /\ \E slug \in Slugs \cup {DefaultSlug} : Read("Lookup", {Found(Lookup(slug))})
    /\ UNCHANGED <<lockVars, scanVars, routerVars, pureVars, advVars, launchVars>>

LookupByPortCall ==
    /\ \E port \in Ports : Read("LookupByPort", {Found(LookupByPort(port))})
    /\ UNCHANGED <<lockVars, scanVars, routerVars, pureVars, advVars, launchVars>>

LookupByPathCall ==
    /\ \E path \in Paths :
            Read("LookupByPath", {Found(r) : r \in LookupByPath(path)})
    /\ UNCHANGED <<lockVars, scanVars, routerVars, pureVars, advVars, launchVars>>

AllCall ==
    /\ Read("All", {All})
    /\ UNCHANGED <<lockVars, scanVars, routerVars, pureVars, advVars, launchVars>>

\* Slugs and Len return a fresh slice of strings and an int: no pointer
SlugsCall ==
    /\ Read("Slugs", {{}})
    /\ UNCHANGED <<lockVars, scanVars, routerVars, pureVars, advVars, launchVars>>

LenCall ==
    /\ Read("Len", {{}})
    /\ UNCHANGED <<lockVars, scanVars, routerVars, pureVars, advVars, launchVars>>

\* the registry is filled while the clock stands still
RegisterCall ==
    /\ \E port \in Ports, project \in Projects :
            Upsert(port, project.name, project.path, project.version, now)
    /\ UNCHANGED <<lockVars, scanVars, routerVars, pureVars, advVars, launchVars>>

NextReads ==
    \/ RegisterCall
    \/ LookupCall \/ LookupByPortCall \/ LookupByPathCall
    \/ AllCall \/ SlugsCall \/ LenCall

\* the registry with its readers
SpecReads ==
    Start /\ [][NextReads]_vars

(***************************************************************************)
(* The registry under its RWMutex.  heap is the memory of the two maps as  *)
(* the statements of Upsert and Prune leave it, one statement at a time;   *)
(* backends and byPort change when the method returns, by the whole        *)
(* operation at once.  A goroutine is at a line of registry.go.            *)
(***************************************************************************)
\* mutant: RLock does not wait for the writer
CanRLockAlways(m) == TRUE

\* sync.RWMutex: RLock waits while a writer holds the mutex
CanRLock(m) == m.writer = "none"

\* sync.RWMutex: Lock waits for the writer and for every reader
CanLock(m) == m.writer = "none" /\ m.readers = {}

\* the maps as one value, to compare with heap
Memory == [backends |-> backends, byPort |-> byPort]

\* the ports the concurrent writers report and the reader asks for
LockPorts == Ports \ {MaxPort}

\* the reports the concurrent writers make: two projects of one slug
LockProjects == {pr \in Projects : pr.path \in {PathA, PathB}}

\* Upsert, lines 49-52: slug, Lock
UpsertLock(th) ==
    /\ th \in Writers
    /\ threads[th].pc = "idle"
    /\ CanLock(mu)
    /\ \E port \in LockPorts, project \in LockProjects, t \in Readings :
          threads' = [threads EXCEPT ![th] =
                         [pc |-> "u55", op |-> "Upsert", port |-> port,
                          project |-> project, t |-> t,
                          slug |-> SlugOf[project.path]]]
    /\ mu' = [mu EXCEPT !.writer = th]
    /\ UNCHANGED <<heap, registryVars, scanVars, routerVars, pureVars, advVars, launchVars>>

\* Upsert, lines 55-58: the port was registered under another slug
UpsertDropChanged(th) ==
    LET c == threads[th]
    IN  /\ c.pc = "u55"
        /\ heap' = IF c.port \in DOMAIN heap.byPort /\ heap.byPort[c.port] # c.slug
                   THEN [heap EXCEPT !.backends = MapDelete(@, heap.byPort[c.port])]
                   ELSE heap
        /\ threads' = [threads EXCEPT ![th].pc = "u62"]
        /\ UNCHANGED <<mu, registryVars, scanVars, routerVars, pureVars, advVars, launchVars>>

\* Upsert, lines 62-67 and 78: the holder of the slug decides the branch
UpsertFind(th) ==
    LET c == threads[th]
        found == c.slug \in DOMAIN heap.backends
    IN  /\ c.pc = "u62"
        /\ IF found /\ SameBackend(heap.backends[c.slug], c.port, c.project.path)
           THEN /\ heap' = IF heap.backends[c.slug].Port # c.port
                           THEN [heap EXCEPT !.byPort =
                                     MapDelete(@, heap.backends[c.slug].Port)]
                           ELSE heap
                /\ threads' = [threads EXCEPT ![th].pc = "u68"]
           ELSE /\ heap' = heap
                /\ threads' = [threads EXCEPT
                                  ![th].pc = "u81",
                                  ![th].slug = IF found
                                               THEN CollisionSlug(c.slug, c.port)
                                               ELSE c.slug]
        /\ UNCHANGED <<mu, registryVars, scanVars, routerVars, pureVars, advVars, launchVars>>

\* Upsert, lines 68-72: the fields of the existing Backend
UpsertWriteFields(th) ==
    LET c == threads[th]
    IN  /\ c.pc = "u68"
        /\ heap' = [heap EXCEPT !.backends[c.slug] =
                       Backend(c.port, c.project.name, c.project.path, @.Slug,
                               c.project.version, c.t)]
        /\ threads' = [threads EXCEPT ![th].pc = "u73"]
        /\ UNCHANGED <<mu, registryVars, scanVars, routerVars, pureVars, advVars, launchVars>>

\* Upsert, lines 81-88: the new Backend
UpsertInsert(th) ==
    LET c == threads[th]
    IN  /\ c.pc = "u81"
        /\ heap' = [heap EXCEPT !.backends =
                       MapPut(@, c.slug,
                              Backend(c.port, c.project.name, c.project.path,
                                      c.slug, c.project.version, c.t))]
        /\ threads' = [threads EXCEPT ![th].pc = "u89"]
        /\ UNCHANGED <<mu, registryVars, scanVars, routerVars, pureVars, advVars, launchVars>>

\* Upsert, line 73 or 89: the port index
UpsertIndexPort(th) ==
    LET c == threads[th]
    IN  /\ c.pc \in {"u73", "u89"}
        /\ heap' = [heap EXCEPT !.byPort = MapPut(@, c.port, c.slug)]
        /\ threads' = [threads EXCEPT ![th].pc = "u92"]
        /\ UNCHANGED <<mu, registryVars, scanVars, routerVars, pureVars, advVars, launchVars>>

\* Upsert returns: the deferred Unlock; the operation as a whole takes effect
UpsertUnlock(th) ==
    LET c == threads[th]
    IN  /\ c.pc = "u92"
        /\ Upsert(c.port, c.project.name, c.project.path, c.project.version, c.t)
        /\ mu' = [mu EXCEPT !.writer = "none"]
        /\ threads' = [threads EXCEPT ![th] = IdleThread]
        /\ UNCHANGED <<heap, scanVars, routerVars, pureVars, advVars, launchVars>>

\* Prune, lines 97-101: Lock, the range over the map begins
PruneLock(th) ==
    /\ th \in Writers
    /\ threads[th].pc = "idle"
    /\ CanLock(mu)
    /\ \E t \in Readings :
          threads' = [threads EXCEPT ![th] =
                         [pc |-> "p101", op |-> "Prune", t |-> t,
                          todo |-> DOMAIN heap.backends]]
    /\ mu' = [mu EXCEPT !.writer = th]
    /\ UNCHANGED <<heap, registryVars, scanVars, routerVars, pureVars, advVars, launchVars>>

\* Prune, lines 101-103: the next entry of the range, in any order
PruneVisit(th) ==
    LET c == threads[th]
    IN  /\ c.pc = "p101"
        /\ c.todo # {}
        /\ \E s \in c.todo :
              IF Stale(heap.backends[s], c.t)
              THEN /\ heap' = [heap EXCEPT !.backends = MapDelete(@, s)]
                   /\ threads' = [threads EXCEPT ![th] =
                                     [pc |-> "p104", op |-> "Prune", t |-> c.t,
                                      todo |-> c.todo \ {s},
                                      port |-> heap.backends[s].Port]]
              ELSE /\ heap' = heap
                   /\ threads' = [threads EXCEPT ![th].todo = c.todo \ {s}]
        /\ UNCHANGED <<mu, registryVars, scanVars, routerVars, pureVars, advVars, launchVars>>

\* Prune, line 104
PruneDeletePort(th) ==
    LET c == threads[th]
    IN  /\ c.pc = "p104"
        /\ heap' = [heap EXCEPT !.byPort = MapDelete(@, c.port)]
        /\ threads' = [threads EXCEPT ![th] =
                          [pc |-> "p101", op |-> "Prune", t |-> c.t,
                           todo |-> c.todo]]
        /\ UNCHANGED <<mu, registryVars, scanVars, routerVars, pureVars, advVars, launchVars>>

\* Prune returns: the deferred Unlock; the operation as a whole takes effect
PruneUnlock(th) ==
    LET c == threads[th]
    IN  /\ c.pc = "p101"
        /\ c.todo = {}
        /\ Prune(c.t)
        /\ mu' = [mu EXCEPT !.writer = "none"]
        /\ threads' = [threads EXCEPT ![th] = IdleThread]
        /\ UNCHANGED <<heap, scanVars, routerVars, pureVars, advVars, launchVars>>

\* Lookup, lines 114-115: RLock
LookupRLock(th) ==
    /\ th \in Readers
    /\ threads[th].pc = "idle"
    /\ CanRLock(mu)
    /\ \E slug \in DOMAIN heap.backends \cup {DefaultSlug} :
          threads' = [threads EXCEPT ![th] =
                         [pc |-> "l116", op |-> "Lookup", slug |-> slug]]
    /\ mu' = [mu EXCEPT !.readers = @ \cup {th}]
    /\ UNCHANGED <<heap, registryVars, scanVars, routerVars, pureVars, advVars, launchVars>>

\* Lookup, lines 116-122
LookupRead(th) ==
    LET c == threads[th]
    IN  /\ c.pc = "l116"
        /\ threads' = [threads EXCEPT ![th] =
              [pc |-> "ret", op |-> "Lookup", slug |-> c.slug,
               result |-> IF c.slug \in DOMAIN heap.backends
                          THEN Hit(heap.backends[c.slug]) ELSE Miss]]
        /\ UNCHANGED <<heap, mu, registryVars, scanVars, routerVars, pureVars, advVars, launchVars>>

\* LookupByPort, lines 127-128: RLock
LookupByPortRLock(th) ==
    /\ th \in Readers
    /\ threads[th].pc = "idle"
    /\ CanRLock(mu)
    /\ \E port \in LockPorts :
          threads' = [threads EXCEPT ![th] =
                         [pc |-> "b129", op |-> "LookupByPort", port |-> port]]
    /\ mu' = [mu EXCEPT !.readers = @ \cup {th}]
    /\ UNCHANGED <<heap, registryVars, scanVars, routerVars, pureVars, advVars, launchVars>>

\* LookupByPort, lines 129-132: the port index
LookupByPortIndex(th) ==
    LET c == threads[th]
    IN  /\ c.pc = "b129"
        /\ threads' = [threads EXCEPT ![th] =
              IF c.port \in DOMAIN heap.byPort
              THEN [pc |-> "b133", op |-> "LookupByPort", port |-> c.port,
                    slug |-> heap.byPort[c.port]]
              ELSE [pc |-> "ret", op |-> "LookupByPort", port |-> c.port,
                    result |-> Miss]]
        /\ UNCHANGED <<heap, mu, registryVars, scanVars, routerVars, pureVars, advVars, launchVars>>

\* LookupByPort, lines 133-135: the Backend of the slug, nil when it has none
LookupByPortDeref(th) ==
    LET c == threads[th]
    IN  /\ c.pc = "b133"
        /\ threads' = [threads EXCEPT ![th] =
              [pc |-> "ret", op |-> "LookupByPort", port |-> c.port,
               result |-> IF c.slug \in DOMAIN heap.backends
                          THEN Hit(heap.backends[c.slug])
                          ELSE [ok |-> FALSE, panic |-> TRUE]]]
        /\ UNCHANGED <<heap, mu, registryVars, scanVars, routerVars, pureVars, advVars, launchVars>>

\* a read returns: the deferred RUnlock
ReadRUnlock(th) ==
    /\ threads[th].pc = "ret"
    /\ mu' = [mu EXCEPT !.readers = @ \ {th}]
    /\ threads' = [threads EXCEPT ![th] = IdleThread]
    /\ UNCHANGED <<heap, registryVars, scanVars, routerVars, pureVars, advVars, launchVars>>

NextLocks ==
    \E th \in Threads :
        \/ UpsertLock(th) \/ UpsertDropChanged(th) \/ UpsertFind(th)
        \/ UpsertWriteFields(th) \/ UpsertInsert(th) \/ UpsertIndexPort(th)
        \/ UpsertUnlock(th)
        \/ PruneLock(th) \/ PruneVisit(th) \/ PruneDeletePort(th)
        \/ PruneUnlock(th)
        \/ LookupRLock(th) \/ LookupRead(th)
        \/ LookupByPortRLock(th) \/ LookupByPortIndex(th)
        \/ LookupByPortDeref(th)
        \/ ReadRUnlock(th)

\* goroutines calling one Registry concurrently
SpecLocks ==
    Start /\ [][NextLocks]_vars

(***************************************************************************)
(* The router (package proxy).  A request is its method, Host header,      *)
(* URL path and the query parameters path and name; an answer says which   *)
(* handler wrote it and, for a proxied request, the backend port and the   *)
(* path sent to the backend.  What the backend then answers is not         *)
(* modelled.                                                               *)
(***************************************************************************)
\* strings.HasSuffix, TrimSuffix, TrimPrefix
HasSuffix(s, suffix) ==
    /\ Len(s) >= Len(suffix)
    /\ SubSeq(s, Len(s) - Len(suffix) + 1, Len(s)) = suffix
TrimSuffix(s, suffix) ==
    IF HasSuffix(s, suffix) THEN SubSeq(s, 1, Len(s) - Len(suffix)) ELSE s
HasPrefix(s, prefix) ==
    /\ Len(s) >= Len(prefix)
    /\ SubSeq(s, 1, Len(prefix)) = prefix
TrimPrefix(s, prefix) ==
    IF HasPrefix(s, prefix) THEN SubSeq(s, Len(prefix) + 1, Len(s)) ELSE s

\* strings.LastIndex and strings.Index of one character, from 1; 0 for none
LastIndex(s, c) ==
    IF \E i \in DOMAIN s : s[i] = c
    THEN CHOOSE i \in DOMAIN s : s[i] = c /\ \A j \in DOMAIN s : s[j] = c => j <= i
    ELSE 0
Index(s, c) ==
    IF \E i \in DOMAIN s : s[i] = c
    THEN CHOOSE i \in DOMAIN s : s[i] = c /\ \A j \in DOMAIN s : s[j] = c => j >= i
    ELSE 0

DotLocal == <<".", "l", "o", "c", "a", "l">>

\* Config.DomainFor: "%s-%s.local"
DomainFor(slug, username) == slug \o <<"-">> \o username \o DotLocal

\* Router.slugFromHost; the empty string is no match
slugFromHost(host, username) ==
    LET idx == LastIndex(host, ":")
        hostname == IF idx # 0 THEN SubSeq(host, 1, idx - 1) ELSE host
        suffix == <<"-">> \o username
    IN  IF ~HasSuffix(hostname, DotLocal) THEN <<>>
        ELSE IF ~HasSuffix(TrimSuffix(hostname, DotLocal), suffix) THEN <<>>
        ELSE TrimSuffix(TrimSuffix(hostname, DotLocal), suffix)

\* mutant: the whole path is sent on
slugFromPathKeepsPrefix(path) ==
    LET trimmed == TrimPrefix(path, <<"/">>)
        i == Index(trimmed, "/")
    IN  IF trimmed = <<>> THEN [slug |-> <<>>, remainder |-> <<>>]
        ELSE [slug |-> IF i = 0 THEN trimmed ELSE SubSeq(trimmed, 1, i - 1),
              remainder |-> path]

\* Router.slugFromPath: strings.SplitN(trimmed, "/", 2)
slugFromPath(path) ==
    LET trimmed == TrimPrefix(path, <<"/">>)
        i == Index(trimmed, "/")
    IN  IF trimmed = <<>> THEN [slug |-> <<>>, remainder |-> <<>>]
        ELSE IF i = 0 THEN [slug |-> trimmed, remainder |-> <<"/">>]
        ELSE [slug |-> SubSeq(trimmed, 1, i - 1),
              remainder |-> <<"/">> \o SubSeq(trimmed, i + 1, Len(trimmed))]

\* Router.proxyTo: the target is the backend's port; the path is overridden
\* only by a non-empty pathOverride
proxyTo(backend, req, pathOverride) ==
    [kind |-> "proxy", slug |-> backend.Slug, port |-> backend.Port,
     path |-> IF pathOverride # <<>> THEN pathOverride ELSE req.path]

\* cfg.Username and cfg.ListenPort of the router
RouterUsername == <<"u">>
ListenPort == 8080

\* the fields the API gives for a Backend
BackendInfo(b) ==
    [slug |-> b.Slug, project_name |-> b.ProjectName,
     project_path |-> b.ProjectPath, port |-> b.Port, version |-> b.Version,
     domain |-> DomainFor(b.Slug, RouterUsername),
     path_prefix |-> <<"/">> \o b.Slug \o <<"/">>,
     url |-> <<"h", "t", "t", "p", ":", "/", "/", "l", "o", "c", "a", "l", "h", "o", "s", "t", ":">> \o Itoa(ListenPort) \o <<"/">> \o b.Slug \o <<"/">>,
     last_seen |-> b.LastSeen]

ApiBackendsPath == <<"/", "a", "p", "i", "/", "b", "a", "c", "k", "e", "n", "d", "s">>
ApiHealthPath == <<"/", "a", "p", "i", "/", "h", "e", "a", "l", "t", "h">>
ApiResolvePath == <<"/", "a", "p", "i", "/", "r", "e", "s", "o", "l", "v", "e">>
ApiPaths == {ApiBackendsPath, ApiHealthPath, ApiResolvePath}

StatusOK == 200
StatusBadRequest == 400
StatusNotFound == 404
StatusMethodNotAllowed == 405

\* Router.handleAPIBackends
handleAPIBackends(req) ==
    IF req.method # "GET"
    THEN [kind |-> "backends", status |-> StatusMethodNotAllowed]
    ELSE [kind |-> "backends", status |-> StatusOK,
          items |-> {BackendInfo(b) : b \in All}]

\* Router.handleAPIHealth: no method check
handleAPIHealth(req) ==
    [kind |-> "health", status |-> StatusOK, healthy |-> TRUE,
     username |-> RouterUsername, backends |-> RegistryLen]

\* the names the resolve queries give, with their slugs remembered
QueryNames == {<<"p">>, <<"P">>, <<"z", "z">>, PathA}
SlugOfName == [n \in QueryNames |-> Slugify(n)]

\* the 404 of handleAPIResolve
NotFound(query) ==
    [kind |-> "resolve", status |-> StatusNotFound, error |-> "not_found",
     query |-> query]

\* the answer of handleAPIResolve for the result of its lookup
ResolveAnswer(r, query) ==
    IF r.ok
    THEN [kind |-> "resolve", status |-> StatusOK, info |-> BackendInfo(r.b)]
    ELSE NotFound(query)

\* mutant: the bare name is looked up as a path as well
handleAPIResolveNameAsPath(req) ==
    IF req.method # "GET"
    THEN {[kind |-> "resolve", status |-> StatusMethodNotAllowed]}
    ELSE IF req.qpath = <<>> /\ req.qname = <<>>
    THEN {[kind |-> "resolve", status |-> StatusBadRequest]}
    ELSE IF req.qpath # <<>>
    THEN {ResolveAnswer(r, req.qpath) : r \in LookupByPath(req.qpath)}
    ELSE {ResolveAnswer(r, req.qname) : r \in LookupByPath(req.qname)}

\* Router.handleAPIResolve: the answers it can give (LookupByPath may have
\* several results)
handleAPIResolve(req) ==
    IF req.method # "GET"
    THEN {[kind |-> "resolve", status |-> StatusMethodNotAllowed]}
    ELSE IF req.qpath = <<>> /\ req.qname = <<>>
    THEN {[kind |-> "resolve", status |-> StatusBadRequest]}
    ELSE IF req.qpath # <<>>
    THEN {ResolveAnswer(r, req.qpath) : r \in LookupByPath(req.qpath)}
    ELSE {ResolveAnswer(Lookup(SlugOfName[req.qname]), req.qname)}

\* Router.handleDashboard
handleDashboard(req) ==
    [kind |-> "dashboard", username |-> RouterUsername, entries |-> Slugs]

\* the control API and the dashboard, lines 58-71
ApiOrDashboard(req) ==
    IF req.path = ApiBackendsPath THEN {handleAPIBackends(req)}
    ELSE IF req.path = ApiHealthPath THEN {handleAPIHealth(req)}
    ELSE IF req.path = ApiResolvePath THEN handleAPIResolve(req)
    ELSE {handleDashboard(req)}

\* mutant: the control API is tried before the path proxy
ServeHTTPApiFirst(req) ==
    LET hostSlug == slugFromHost(req.host, RouterUsername)
        fromPath == slugFromPath(req.path)
    IN  IF hostSlug # <<>> /\ Lookup(hostSlug).ok
        THEN {proxyTo(Lookup(hostSlug).b, req, <<>>)}
        ELSE IF req.path \in ApiPaths THEN ApiOrDashboard(req)
        ELSE IF fromPath.slug # <<>> /\ Lookup(fromPath.slug).ok
        THEN {proxyTo(Lookup(fromPath.slug).b, req, fromPath.remainder)}
        ELSE ApiOrDashboard(req)

\* mutant: the path proxy is tried before the host proxy
ServeHTTPPathFirst(req) ==
    LET hostSlug == slugFromHost(req.host, RouterUsername)
        fromPath == slugFromPath(req.path)
    IN  IF fromPath.slug # <<>> /\ Lookup(fromPath.slug).ok
        THEN {proxyTo(Lookup(fromPath.slug).b, req, fromPath.remainder)}
        ELSE IF hostSlug # <<>> /\ Lookup(hostSlug).ok
        THEN {proxyTo(Lookup(hostSlug).b, req, <<>>)}
        ELSE ApiOrDashboard(req)

\* Router.ServeHTTP: the answers it can give
ServeHTTP(req) ==
    LET hostSlug == slugFromHost(req.host, RouterUsername)
        fromPath == slugFromPath(req.path)
    IN  IF hostSlug # <<>> /\ Lookup(hostSlug).ok
        THEN {proxyTo(Lookup(hostSlug).b, req, <<>>)}
        ELSE IF fromPath.slug # <<>> /\ Lookup(fromPath.slug).ok
        THEN {proxyTo(Lookup(fromPath.slug).b, req, fromPath.remainder)}
        ELSE ApiOrDashboard(req)

\* the instances behind the router: two projects of one slug and a project
\* whose folder is named api, on the two ports of the router's tests
RouterProjects ==
    {[name |-> <<"p">>, path |-> PathA, version |-> "v1"],
     [name |-> <<"P">>, path |-> PathB, version |-> "v2"],
     [name |-> <<"a", "p", "i">>, path |-> PathApi, version |-> "v1"]}
RouterPorts == {4096, 4097}

\* the requests: hosts of registered and unregistered slugs, with and
\* without port; paths "/" + slug + suffix; the queries of /api/resolve
SlugP == <<"p">>
SlugApi == <<"a", "p", "i">>
SlugZz == <<"z", "z">>
HostPort == <<":", "8", "0", "8", "0">>
LocalHost == <<"l", "o", "c", "a", "l", "h", "o", "s", "t">> \o HostPort
RouterHosts ==
    {LocalHost,
     DomainFor(SlugP, RouterUsername),
     DomainFor(SlugP, RouterUsername) \o HostPort,
     DomainFor(SlugApi, RouterUsername),
     DomainFor(SlugZz, RouterUsername)}
PathSlugs == {SlugP, SlugApi, SlugZz, CollisionSlug(SlugP, 4097)}
PathSuffixes ==
    {<<>>, <<"/">>, <<"/", "x", "/", "y">>, <<"/", "b", "a", "c", "k", "e", "n", "d", "s">>, <<"/", "h", "e", "a", "l", "t", "h">>, <<"/", "r", "e", "s", "o", "l", "v", "e">>}
RouterPaths ==
    {<<"/">> \o s \o t : s \in PathSlugs, t \in PathSuffixes}
        \cup {<<"/">>, <<"/", "/", "p", "/", "x">>}
Methods == {"GET", "POST"}
PathUnregistered == <<"/", "z", "/", "p">>
PathNowhere == <<"/", "z", "/", "q">>
QueryPaths == {<<>>, PathA, PathB, PathUnregistered, PathNowhere}
Requests ==
    {[method |-> m, host |-> h, path |-> p, qpath |-> <<>>, qname |-> <<>>] :
        m \in Methods, h \in RouterHosts, p \in RouterPaths}
    \cup
    {[method |-> m, host |-> LocalHost, path |-> ApiResolvePath,
      qpath |-> qp, qname |-> qn] :
        m \in Methods, qp \in QueryPaths, qn \in QueryNames \cup {<<>>}}

\* a request is served; the router's exchanges are taken one at a time
ServeHTTPCall ==
    /\ request = NoRequest
    /\ \E req \in Requests : \E resp \in ServeHTTP(req) :
          /\ request' = req
          /\ response' = resp
    /\ UNCHANGED <<registryVars, lockVars, scanVars, pureVars, advVars, launchVars>>

\* the client has its answer
AnswerTaken ==
    /\ request # NoRequest
    /\ request' = NoRequest
    /\ response' = NoResponse
    /\ UNCHANGED <<registryVars, lockVars, scanVars, pureVars, advVars, launchVars>>

\* an instance is registered between two requests
RouterRegisterCall ==
    /\ request = NoRequest
    /\ \E port \in RouterPorts, project \in RouterProjects :
          Upsert(port, project.name, project.path, project.version, now)
    /\ UNCHANGED <<lockVars, scanVars, routerVars, pureVars, advVars, launchVars>>

NextRouter == ServeHTTPCall \/ AnswerTaken \/ RouterRegisterCall

\* the router in front of a registry that is being filled
SpecRouter ==
    Start /\ [][NextRouter]_vars

(***************************************************************************)
(* Pure functions called on their own: the argument is drawn from a        *)
(* bounded set of strings, the result is what the function computes.       *)
(***************************************************************************)
\* strings have at most MaxLen characters drawn freely
MaxLen == 3

\* the strings over an alphabet, up to MaxLen characters
Strings(alphabet) == UNION {[1..k -> alphabet] : k \in 0..MaxLen}

\* inputs of Slugify: a lower-case letter, an upper-case letter, a digit, a
\* hyphen, a character outside [a-z0-9-], the separator and the dot
SlugifyAlphabet == {"a", "B", "1", "-", "_", "/", "."}

\* the result of a pure function
Returned(v) == [done |-> TRUE, v |-> v]

InitSlugify ==
    /\ arg \in {[fn |-> "Slugify", x |-> x] : x \in Strings(SlugifyAlphabet)}
    /\ out = NoOut

\* nothing else runs while Slugify is applied
StartSlugify == Init /\ InitLocks /\ InitScanner /\ InitAdvertiser /\ InitLauncher
         /\ InitRouter /\ InitSlugify

SlugifyCall ==
    /\ arg.fn = "Slugify"
    /\ ~out.done
    /\ out' = Returned(Slugify(arg.x))
    /\ UNCHANGED <<arg, registryVars, lockVars, scanVars, routerVars, advVars, launchVars>>

\* Slugify applied to any string
SpecSlugify ==
    StartSlugify /\ [][SlugifyCall]_vars

\* usernames Config.Validate accepts: any non-empty string
HostUsernames == {<<"u">>, <<"a", "-", "b">>, <<"a", ":", "b">>}

\* what stands in a host before its suffix
HostLabels == Strings({"p", "1", "-", ":"})

\* hosts: a label, then nothing, ".local", "-<username>" or
\* "-<username>.local", then a port or none
Hosts(username) ==
    {l \o suffix \o port :
        l \in HostLabels,
        suffix \in {<<>>, DotLocal, <<"-">> \o username,
                    <<"-">> \o username \o DotLocal},
        port \in {<<>>, HostPort}}

InitHost ==
    /\ arg \in {[fn |-> "slugFromHost", host |-> host, username |-> username] :
                    username \in HostUsernames,
                    host \in UNION {Hosts(u) : u \in HostUsernames}}
    /\ out = NoOut

\* nothing else runs while slugFromHost is applied
StartHost == Init /\ InitLocks /\ InitScanner /\ InitAdvertiser /\ InitLauncher
         /\ InitRouter /\ InitHost

slugFromHostCall ==
    /\ arg.fn = "slugFromHost"
    /\ ~out.done
    /\ out' = Returned(slugFromHost(arg.host, arg.username))
    /\ UNCHANGED <<arg, registryVars, lockVars, scanVars, routerVars, advVars, launchVars>>

\* slugFromHost applied to any host under any username
SpecHost ==
    StartHost /\ [][slugFromHostCall]_vars

(***************************************************************************)
(* The scanner.  Run makes a pass at once and then one at every tick; a    *)
(* pass (scan) launches one probe goroutine for every port, at most        *)
(* ScanConcurrency at a time, waits for them and prunes.  sem and wg are   *)
(* variables of scan: every pass has its own.  A probe is at a step of     *)
(* probePort or of the deferred calls of its goroutine, and remembers what *)
(* its two requests returned.  The clock stands still within a pass and    *)
(* moves on by one interval at every tick.                                 *)
(***************************************************************************)
\* ScanInterval of the configuration, in units of the clock
ScanInterval == StaleAfter + 1
\* the scanned range is portStart..portEnd: the ports of the instances
PortStart == 1
PortEnd == Len(ScanInstances)
ScanPorts == PortStart..PortEnd

\* the instance listening at a port
InstanceAt(port) == ScanInstances[port]

\* fmt.Sprintf("port-%d", port)
FallbackName(port) == <<"p", "o", "r", "t", "-">> \o Itoa(port)

\* probePort, lines 139-142: the path of a project, made up from its id when
\* the project has none
ProjectPathOf(project) ==
    IF project.path = <<>> THEN UnknownIdPath(project.id) ELSE project.path

NewPass == [sem |-> 0, wg |-> 0, pruned |-> FALSE]
NewProbe == [pc |-> "health", health |-> "none", project |-> "none"]

\* Run is called: the first pass begins
RunStart ==
    /\ scanner.pc = "new"
    /\ scanner' = [scanner EXCEPT !.pc = "loop", !.pass = 1,
                                  !.port = PortStart]
    /\ passes' = MapPut(passes, 1, NewPass)
    /\ UNCHANGED <<probes, ctxDone, answering, registryVars, lockVars,
                   routerVars, pureVars, advVars, launchVars>>

\* mutant: scan does not look at ctx
LoopCancelledNever == FALSE

\* scan, lines 94-98: <-ctx.Done() is ready
LoopCancelled == ctxDone

\* scan, lines 93-100: the loop condition, the test of ctx, wg.Add(1)
ScanLoop ==
    /\ scanner.pc = "loop"
    /\ IF scanner.port > PortEnd
       THEN /\ scanner' = [scanner EXCEPT !.pc = "wait"]
            /\ UNCHANGED passes
       ELSE IF LoopCancelled
       THEN /\ scanner' = [scanner EXCEPT !.pc = "select"]
            /\ UNCHANGED passes
       ELSE /\ scanner' = [scanner EXCEPT !.pc = "acquire"]
            /\ passes' = [passes EXCEPT ![scanner.pass].wg = @ + 1]
    /\ UNCHANGED <<probes, ctxDone, answering, registryVars, lockVars,
                   routerVars, pureVars, advVars, launchVars>>

\* mutant: the channel of the semaphore never fills
SemFreeAlways(pass) == TRUE

\* sem <- struct{}{} goes through while the channel holds fewer than its
\* capacity
SemFree(pass) == passes[pass].sem < scanner.concurrency

\* scan, lines 101-106: a slot of the semaphore, then the goroutine
ScanLaunch ==
    /\ scanner.pc = "acquire"
    /\ SemFree(scanner.pass)
    /\ passes' = [passes EXCEPT ![scanner.pass].sem = @ + 1]
    /\ probes' = MapPut(probes, <<scanner.pass, scanner.port>>, NewProbe)
    /\ scanner' = [scanner EXCEPT !.pc = "loop", !.port = @ + 1]
    /\ UNCHANGED <<ctxDone, answering, registryVars, lockVars, routerVars,
                   pureVars, advVars, launchVars>>

\* mutant: scan does not wait for its probes
WaitDoneAlways(pass) == TRUE

\* mutant: the WaitGroup never lets scan go
WaitDoneNever(pass) == FALSE

\* wg.Wait returns when the counter is zero
WaitDone(pass) == passes[pass].wg = 0

\* scan, line 109
ScanWait ==
    /\ scanner.pc = "wait"
    /\ WaitDone(scanner.pass)
    /\ scanner' = [scanner EXCEPT !.pc = "prune"]
    /\ UNCHANGED <<probes, passes, ctxDone, answering, registryVars, lockVars,
                   routerVars, pureVars, advVars, launchVars>>

\* scan, lines 112-115: Prune, and scan returns to Run
ScanPrune ==
    /\ scanner.pc = "prune"
    /\ Prune(now)
    /\ passes' = [passes EXCEPT ![scanner.pass].pruned = TRUE]
    /\ scanner' = [scanner EXCEPT !.pc = "select"]
    /\ UNCHANGED <<probes, ctxDone, answering, lockVars, routerVars, pureVars, advVars, launchVars>>

\* the goroutines that have not ended
Live == [g \in {h \in DOMAIN probes : probes[h].pc # "done"} |-> probes[g]]

\* Run, lines 82-83: the ticker fires, an interval after the pass before, and
\* the next pass begins; the goroutines that have ended are gone
RunTick ==
    /\ scanner.pc = "select"
    /\ now + ScanInterval <= MaxTime
    /\ now' = now + ScanInterval
    /\ scanner' = [scanner EXCEPT !.pc = "loop", !.pass = @ + 1,
                                  !.port = PortStart]
    /\ passes' = MapPut(passes, scanner.pass + 1, NewPass)
    /\ probes' = Live
    /\ UNCHANGED <<backends, byPort, last, ctxDone, answering, lockVars,
                   routerVars, pureVars, advVars, launchVars>>

\* Run, lines 79-81: ctx is done and Run returns
RunStop ==
    /\ scanner.pc = "select"
    /\ ctxDone
    /\ scanner' = [scanner EXCEPT !.pc = "stopped"]
    /\ UNCHANGED <<probes, passes, ctxDone, answering, registryVars, lockVars,
                   routerVars, pureVars, advVars, launchVars>>

\* main cancels the context
Cancel ==
    /\ ~ctxDone
    /\ ctxDone' = TRUE
    /\ UNCHANGED <<scanner, probes, passes, answering, registryVars, lockVars,
                   routerVars, pureVars, advVars, launchVars>>

\* the instance of a port goes away for good
InstanceStops(port) ==
    /\ port \in answering
    /\ answering' = answering \ {port}
    /\ UNCHANGED <<scanner, probes, passes, ctxDone, registryVars, lockVars,
                   routerVars, pureVars, advVars, launchVars>>

\* a request made with ctx fails once ctx is done, and when nothing listens
Unreachable(port) == ctxDone \/ port \notin answering

\* getHealth: an error (transport, status, JSON), or the health reported
HealthOutcomes(port) ==
    IF Unreachable(port) THEN {"error"} ELSE {"healthy", "unhealthy", "error"}

\* getProject: an error or the project
ProjectOutcomes(port) ==
    IF Unreachable(port) THEN {"error"} ELSE {"ok", "error"}

\* mutant: the health reported is not looked at
AfterHealthAnyAnswer(outcome) == IF outcome = "error" THEN "exit" ELSE "project"

\* probePort, lines 124-129: only a healthy instance is asked for its project
AfterHealth(outcome) == IF outcome = "healthy" THEN "project" ELSE "exit"

\* probePort, lines 133-138
AfterProject(outcome) == IF outcome = "ok" THEN "upsert" ELSE "fallback"

\* probePort, lines 123-129: the health check
ProbeHealth(g) ==
    /\ probes[g].pc = "health"
    /\ \E outcome \in HealthOutcomes(g[2]) :
          probes' = [probes EXCEPT ![g].pc = AfterHealth(outcome),
                                   ![g].health = outcome]
    /\ UNCHANGED <<scanner, passes, ctxDone, answering, registryVars, lockVars,
                   routerVars, pureVars, advVars, launchVars>>

\* probePort, lines 132-133: the project of the instance
ProbeProject(g) ==
    /\ probes[g].pc = "project"
    /\ \E outcome \in ProjectOutcomes(g[2]) :
          probes' = [probes EXCEPT ![g].pc = AfterProject(outcome),
                                   ![g].project = outcome]
    /\ UNCHANGED <<scanner, passes, ctxDone, answering, registryVars, lockVars,
                   routerVars, pureVars, advVars, launchVars>>

\* probePort, lines 135-136: healthy, but no project
ProbeFallback(g) ==
    /\ probes[g].pc = "fallback"
    /\ Upsert(g[2], FallbackName(g[2]), UnknownPath(g[2]),
              InstanceAt(g[2]).version, now)
    /\ probes' = [probes EXCEPT ![g].pc = "exit"]
    /\ UNCHANGED <<scanner, passes, ctxDone, answering, lockVars, routerVars,
                   pureVars, advVars, launchVars>>

\* mutant: the name the instance is known by is its id
ProjectNameFromId(port) == InstanceAt(port).id

\* probePort, lines 139-144: the display name is the last element of the path
ProjectNameAt(port) == Base(ProjectPathOf(InstanceAt(port)))

\* probePort, lines 139-146
ProbeUpsert(g) ==
    /\ probes[g].pc = "upsert"
    /\ Upsert(g[2], ProjectNameAt(g[2]), ProjectPathOf(InstanceAt(g[2])),
              InstanceAt(g[2]).version, now)
    /\ probes' = [probes EXCEPT ![g].pc = "exit"]
    /\ UNCHANGED <<scanner, passes, ctxDone, answering, lockVars, routerVars,
                   pureVars, advVars, launchVars>>

\* the goroutine, line 104: the slot is given back
ProbeRelease(g) ==
    /\ probes[g].pc = "exit"
    /\ passes' = [passes EXCEPT ![g[1]].sem = @ - 1]
    /\ probes' = [probes EXCEPT ![g].pc = "released"]
    /\ UNCHANGED <<scanner, ctxDone, answering, registryVars, lockVars,
                   routerVars, pureVars, advVars, launchVars>>

\* the goroutine, line 103: wg.Done
ProbeDone(g) ==
    /\ probes[g].pc = "released"
    /\ passes' = [passes EXCEPT ![g[1]].wg = @ - 1]
    /\ probes' = [probes EXCEPT ![g].pc = "done"]
    /\ UNCHANGED <<scanner, ctxDone, answering, registryVars, lockVars,
                   routerVars, pureVars, advVars, launchVars>>

\* a step of a probe goroutine
ProbeStep(g) ==
    /\ g \in DOMAIN probes
    /\ \/ ProbeHealth(g) \/ ProbeProject(g) \/ ProbeFallback(g)
       \/ ProbeUpsert(g) \/ ProbeRelease(g) \/ ProbeDone(g)

\* a step of scan
ScanStep == RunStart \/ ScanLoop \/ ScanLaunch \/ ScanWait \/ ScanPrune

NextScanner ==
    \/ RunStart \/ ScanLoop \/ ScanLaunch \/ ScanWait \/ ScanPrune
    \/ RunTick \/ RunStop \/ Cancel
    \/ \E g \in DOMAIN probes :
          \/ ProbeHealth(g) \/ ProbeProject(g) \/ ProbeFallback(g)
          \/ ProbeUpsert(g) \/ ProbeRelease(g) \/ ProbeDone(g)

\* the scanner and its probes on the registry
SpecScanner ==
    Start /\ [][NextScanner]_vars

\* a step of any probe goroutine
AnyProbeStep == \E g \in DOMAIN probes : ProbeStep(g)

\* the scheduler lets scan take its next step and, while probes can step, one
\* of them; the select of Run, lines 78-84, takes <-ctx.Done() once that
\* case stays ready
ScannerFairness ==
    /\ WF_vars(ScanStep)
    /\ WF_vars(AnyProbeStep)
    /\ WF_vars(RunStop)

\* the scanner under a fair scheduler
SpecScannerFair ==
    Start /\ [][NextScanner]_vars /\ ScannerFairness

\* the instance that goes away
StoppingPort == PortStart

\* the scanner running on with no cancellation, while an instance goes away
NextStale ==
    \/ RunStart \/ ScanLoop \/ ScanLaunch \/ ScanWait \/ ScanPrune
    \/ RunTick
    \/ \E g \in DOMAIN probes :
          \/ ProbeHealth(g) \/ ProbeProject(g) \/ ProbeFallback(g)
          \/ ProbeUpsert(g) \/ ProbeRelease(g) \/ ProbeDone(g)
    \/ InstanceStops(StoppingPort)

\* scan passes keep running: the ticker fires, scan and the probes step
SpecStale ==
    Start /\ [][NextStale]_vars
          /\ WF_vars(ScanStep) /\ WF_vars(AnyProbeStep) /\ WF_vars(RunTick)

(***************************************************************************)
(* Advertiser (internal/discovery).                                        *)
(***************************************************************************)

\* the handles the model lets the Advertiser obtain
MaxHandles == 3

\* the Backends the snapshots are made of: one project seen on two ports
\* with two versions, and a second project without a version
AdvBackends ==
    {Backend(1, <<"p">>, PathA, <<"p">>, "v1", 0),
     Backend(2, <<"p">>, PathA, <<"p">>, "v2", 0),
     Backend(3, <<"P">>, PathB, <<"p", "-", "3">>, "", 0)}

\* the slugs of a slice of Backends
SlugsOf(bs) == {bs[i].Slug : i \in DOMAIN bs}

\* the slices Registry.All gives: at most one Backend for a slug
Snapshots ==
    {<<>>} \cup {<<b>> : b \in AdvBackends}
           \cup {bs \in AdvBackends \X AdvBackends : bs[1].Slug # bs[2].Slug}

\* register, line 75: the address of the backend in the TXT record
LoopbackAddr(port) == <<"1", "2", "7", ".", "0", ".", "0", ".", "1", ":">> \o Itoa(port)

\* register, lines 72-81: the keys of the TXT record; version only when the
\* Backend has one
TxtKeys(b) ==
    {"project", "path", "backend", "owner"}
        \cup (IF b.Version # "" THEN {"version"} ELSE {})

\* register, lines 72-81: the TXT record
Txt(b) ==
    LET fields == [project |-> b.ProjectName, path |-> b.ProjectPath,
                   backend |-> LoopbackAddr(b.Port), owner |-> RouterUsername,
                   version |-> b.Version]
    IN  [k \in TxtKeys(b) |-> fields[k]]

\* register, lines 85-94: the handle zeroconf.RegisterProxy gives; downs
\* counts the calls of its Shutdown
NewHandle(b) ==
    [instance |-> b.Slug, host |-> DomainFor(b.Slug, RouterUsername),
     port |-> ListenPort, txt |-> Txt(b), downs |-> 0]

\* mutant: shutting a handle down does nothing
TearDownNone(all, hs) == all

\* srv.Shutdown() on every handle of hs
TearDown(all, hs) ==
    [h \in DOMAIN all |->
        IF h \in hs THEN [all[h] EXCEPT !.downs = @ + 1] ELSE all[h]]

\* mutant: no advertised slug is ever found gone
GoneNone(current) == {}

\* Sync, lines 49-55: the advertised slugs that are not in the snapshot
Gone(current) == {slug \in DOMAIN servers : slug \notin current}

\* mutant: a service that was torn down stays in the map
KeptAll(gone) == DOMAIN servers

\* Sync, line 52: the slugs left in the map once those gone are deleted
Kept(gone) == DOMAIN servers \ gone

\* mutant: every Backend of the snapshot is registered afresh
ToRegisterAll(bs, kept) == bs

\* Sync, lines 58-61: the Backends whose slug is not advertised
ToRegister(bs, kept) == SelectSeq(bs, LAMBDA b : b.Slug \notin kept)

\* mutant: the loop ends at the first registration that fails
RegisteredUntilFailure(tried, failed) ==
    LET bad == {i \in DOMAIN tried : tried[i].Slug \in failed}
    IN  IF bad = {} THEN tried
        ELSE SubSeq(tried, 1, (CHOOSE i \in bad : \A j \in bad : i <= j) - 1)

\* Sync, lines 62-64: a registration that fails is logged and the loop goes
\* on: the Backends that register gives a handle for
Registered(tried, failed) == SelectSeq(tried, LAMBDA b : b.Slug \notin failed)

\* the position of the Backend with this slug in a slice
IndexOf(bs, slug) == CHOOSE i \in DOMAIN bs : bs[i].Slug = slug

\* Sync, lines 38-66, under a.mu from start to end; failed are the slugs
\* whose zeroconf.RegisterProxy returns an error
Sync(snapshot, failed) ==
    LET current == SlugsOf(snapshot)
        gone == Gone(current)
        kept == Kept(gone)
        tried == ToRegister(snapshot, kept)
        ok == Registered(tried, failed)
    IN  /\ failed \subseteq SlugsOf(tried)
        /\ Len(handles) + Len(ok) <= MaxHandles
        /\ handles' = TearDown(handles, {servers[slug] : slug \in gone})
                        \o [i \in DOMAIN ok |-> NewHandle(ok[i])]
        /\ servers' = [slug \in kept \cup SlugsOf(ok) |->
                          IF slug \in SlugsOf(ok)
                          THEN Len(handles) + IndexOf(ok, slug)
                          ELSE servers[slug]]
        /\ advLast' = [op |-> "Sync", snapshot |-> snapshot,
                       again |-> advLast.op = "Sync"
                                    /\ advLast.snapshot = snapshot,
                       removed |-> gone, tried |-> SlugsOf(tried),
                       failed |-> failed]
        /\ UNCHANGED <<registryVars, lockVars, scanVars, routerVars, pureVars, launchVars>>

SyncCall ==
    /\ \E snapshot \in Snapshots : \E failed \in SUBSET SlugsOf(snapshot) :
           Sync(snapshot, failed)
    /\ UNCHANGED <<mainPc, syncLoop>>

\* Shutdown, lines 110-119
Shutdown ==
    /\ handles' = TearDown(handles, {servers[slug] : slug \in DOMAIN servers})
    /\ servers' = EmptyMap
    /\ advLast' = [NoSync EXCEPT !.op = "Shutdown",
                                 !.again = advLast.op = "Shutdown",
                                 !.removed = DOMAIN servers]
    /\ UNCHANGED <<registryVars, lockVars, scanVars, routerVars, pureVars, launchVars>>

AdvertiserShutdown == Shutdown /\ UNCHANGED <<mainPc, syncLoop>>

NextAdvertiser == SyncCall \/ AdvertiserShutdown

SpecAdvertiser == Start /\ [][NextAdvertiser]_vars

(***************************************************************************)
(* main: the mDNS sync loop and the shutdown sequence.                     *)
(***************************************************************************)

\* Registry.All as a slice: the Backends in an order of the map's iteration
SlicesOf(bs) == {s \in [1..Cardinality(bs) -> bs] : Range(s) = bs}

\* the sync loop is idle in its select
AtSelect == [pc |-> "select", snapshot |-> <<>>]

\* main, lines 88-91: the ticker's channel is ready whenever time has
\* passed, whether ctx is cancelled or not; select takes any ready case
TickReady == TRUE

\* main, lines 88-92: select takes the ticker's case
LoopTick ==
    /\ mainPc # "exited"
    /\ syncLoop.pc = "select"
    /\ TickReady
    /\ syncLoop' = [syncLoop EXCEPT !.pc = "all"]
    /\ UNCHANGED <<servers, handles, advLast, mainPc, registryVars, lockVars,
                   scanVars, routerVars, pureVars, launchVars>>

\* main, lines 89-90: select takes ctx.Done() and the goroutine returns
LoopReturn ==
    /\ mainPc # "exited"
    /\ syncLoop.pc = "select"
    /\ ctxDone
    /\ syncLoop' = [syncLoop EXCEPT !.pc = "returned"]
    /\ UNCHANGED <<servers, handles, advLast, mainPc, registryVars, lockVars,
                   scanVars, routerVars, pureVars, launchVars>>

\* main, line 92: the argument reg.All() is evaluated
LoopAll ==
    /\ mainPc # "exited"
    /\ syncLoop.pc = "all"
    /\ \E snapshot \in SlicesOf(All) :
           syncLoop' = [pc |-> "sync", snapshot |-> snapshot]
    /\ UNCHANGED <<servers, handles, advLast, mainPc, registryVars, lockVars,
                   scanVars, routerVars, pureVars, launchVars>>

\* main, line 92: adv.Sync runs once it has a.mu
LoopSync ==
    /\ mainPc # "exited"
    /\ syncLoop.pc = "sync"
    /\ \E failed \in SUBSET SlugsOf(syncLoop.snapshot) :
           Sync(syncLoop.snapshot, failed)
    /\ syncLoop' = AtSelect
    /\ UNCHANGED mainPc

\* the instances the scanner finds while the process runs: port -> project
MainInstances ==
    <<[name |-> <<"p">>, path |-> PathA, version |-> "v1"],
      [name |-> <<"p", "_", "1">>, path |-> PathX, version |-> "v1"]>>

\* the scanner registers an instance while the process runs
MainRegisterCall ==
    /\ mainPc = "serving"
    /\ \E port \in DOMAIN MainInstances :
           LET project == MainInstances[port]
           IN  Upsert(port, project.name, project.path, project.version, now)
    /\ UNCHANGED <<lockVars, scanVars, routerVars, pureVars, advVars, launchVars>>

\* main, lines 131-137: a signal arrives and main cancels ctx
MainCancel ==
    /\ mainPc = "serving"
    /\ Cancel

\* main, lines 139-141: adv.Shutdown()
MainShutdown ==
    /\ mainPc = "serving"
    /\ ctxDone
    /\ Shutdown
    /\ mainPc' = "advDown"
    /\ UNCHANGED syncLoop

\* main, lines 143-150: the HTTP server is shut down and main returns; the
\* process and its goroutines end
MainExit ==
    /\ mainPc = "advDown"
    /\ mainPc' = "exited"
    /\ UNCHANGED <<servers, handles, advLast, syncLoop, registryVars, lockVars,
                   scanVars, routerVars, pureVars, launchVars>>

NextMain ==
    \/ MainRegisterCall
    \/ LoopTick \/ LoopReturn \/ LoopAll \/ LoopSync
    \/ MainCancel \/ MainShutdown \/ MainExit

SpecMain == Start /\ [][NextMain]_vars

(***************************************************************************)
(* Launcher (internal/launcher).                                           *)
(***************************************************************************)

\* the processes the model lets the Launcher start
MaxProcs == 3

\* New: the range the Launcher takes its ports from
LaunchPortStart == 1
LaunchPortEnd == 2
LaunchRange == LaunchPortStart..LaunchPortEnd

\* the ports of localhost where something may listen
LocalPorts == LaunchPortStart..(LaunchPortEnd + 1)

\* the arguments of Launch: two directories and a path that is none
LaunchDirs ==
    {[path |-> "/a", isDir |-> TRUE], [path |-> "/b", isDir |-> TRUE],
     [path |-> "/f", isDir |-> FALSE]}
LaunchPaths ==
    {<<d>> : d \in LaunchDirs} \cup (LaunchDirs \X LaunchDirs)
        \cup {<<d, d, d>> : d \in {e \in LaunchDirs : e.isDir}}

\* portInUse, lines 127-134: a connection to the port is accepted
portInUse(port) == port \in inUse

\* Launch, line 63: the port has left the range
PastEnd(port) == port > LaunchPortEnd

\* Launch, lines 61-66: the next port nothing listens on; 0 when the loop
\* returns the error
RECURSIVE FindFree(_)
FindFree(port) ==
    IF ~portInUse(port) THEN port
    ELSE IF PastEnd(port + 1) THEN 0
    ELSE FindFree(port + 1)

\* Launch, line 45
LaunchCall ==
    /\ launcher.pc # "running"
    /\ \E paths \in LaunchPaths :
           launcher' = [pc |-> "running", paths |-> paths,
                        nextPort |-> LaunchPortStart, err |-> FALSE]
    /\ UNCHANGED <<procs, inUse, registryVars, lockVars, scanVars, routerVars,
                   pureVars, advVars>>

\* Launch, lines 47-96: one turn of the loop over the paths; started tells
\* whether cmd.Start succeeds
LaunchDir(started) ==
    LET dir == Head(launcher.paths)
        rest == Tail(launcher.paths)
        port == FindFree(launcher.nextPort)
    IN  /\ launcher.pc = "running"
        /\ launcher.paths # <<>>
        /\ Len(procs) < MaxProcs
        /\ IF ~dir.isDir
           THEN /\ launcher' = [launcher EXCEPT !.paths = rest]
                /\ procs' = procs
           ELSE IF port = 0
           THEN /\ launcher' = [launcher EXCEPT !.pc = "returned",
                                                !.err = TRUE]
                /\ procs' = procs
           ELSE IF ~started
           THEN /\ launcher' = [launcher EXCEPT !.paths = rest,
                                                !.nextPort = port]
                /\ procs' = procs
           ELSE /\ launcher' = [launcher EXCEPT !.paths = rest,
                                                !.nextPort = port + 1]
                /\ procs' = Append(procs, [path |-> dir.path, port |-> port])
        /\ UNCHANGED <<inUse, registryVars, lockVars, scanVars, routerVars,
                       pureVars, advVars>>

\* Launch, line 97: every path was gone through
LaunchReturn ==
    /\ launcher.pc = "running"
    /\ launcher.paths = <<>>
    /\ launcher' = [launcher EXCEPT !.pc = "returned"]
    /\ UNCHANGED <<procs, inUse, registryVars, lockVars, scanVars, routerVars,
                   pureVars, advVars>>

\* Shutdown, lines 101-124: the list is emptied and every process signalled
LauncherShutdown ==
    /\ procs # <<>>
    /\ procs' = <<>>
    /\ UNCHANGED <<launcher, inUse, registryVars, lockVars, scanVars,
                   routerVars, pureVars, advVars>>

\* a process, started by the Launcher or not, begins to listen on a port
Listen(port) ==
    /\ port \notin inUse
    /\ inUse' = inUse \cup {port}
    /\ UNCHANGED <<launcher, procs, registryVars, lockVars, scanVars,
                   routerVars, pureVars, advVars>>

\* the listener of a port goes away
Close(port) ==
    /\ port \in inUse
    /\ inUse' = inUse \ {port}
    /\ UNCHANGED <<launcher, procs, registryVars, lockVars, scanVars,
                   routerVars, pureVars, advVars>>

NextLauncher ==
    \/ LaunchCall
    \/ \E started \in BOOLEAN : LaunchDir(started)
    \/ LaunchReturn
    \/ LauncherShutdown
    \/ \E port \in LocalPorts : Listen(port) \/ Close(port)

SpecLauncher == Start /\ [][NextLauncher]_vars

(***************************************************************************)
(* Config (internal/config): the configurations Validate accepts, and the  *)
(* scanner main builds from one of them.                                   *)
(***************************************************************************)
MaxTcpPort == 65535

\* configurations as the flags can make them: each field right or wrong,
\* and a scan concurrency of zero
Configs ==
    [ListenPort : {0, ListenPort},
     ScanPortStart : {0, PortStart},
     ScanPortEnd : {0, PortEnd},
     Username : {<<>>, RouterUsername},
     ScanInterval : {0, ScanInterval},
     ScanConcurrency : {0, ScanConcurrency}]

\* Validate, lines 60-80: the error it returns, "nil" for none
Validate(c) ==
    IF c.ListenPort < 1 \/ c.ListenPort > MaxTcpPort THEN "listen port"
    ELSE IF c.ScanPortStart < 1 \/ c.ScanPortStart > MaxTcpPort
    THEN "scan port start"
    ELSE IF c.ScanPortEnd < c.ScanPortStart THEN "scan port end before start"
    ELSE IF c.ScanPortEnd > MaxTcpPort THEN "scan port end"
    ELSE IF c.Username = <<>> THEN "username"
    ELSE IF c.ScanInterval < 1 THEN "scan interval"
    ELSE "nil"

\* main, lines 39-42 and 58-67: main goes on only with a configuration
\* Validate accepts and gives its scan concurrency to scanner.New
Accepted == {c \in Configs : Validate(c) = "nil"}

StartConfig ==
    \E c \in Accepted :
        Init /\ InitLocks /\ InitScannerWith(c.ScanConcurrency)
             /\ InitAdvertiser /\ InitLauncher /\ InitRouter /\ InitPure

\* the scanner running on with no cancellation
NextConfig ==
    \/ RunStart \/ ScanLoop \/ ScanLaunch \/ ScanWait \/ ScanPrune
    \/ RunTick
    \/ \E g \in DOMAIN probes :
          \/ ProbeHealth(g) \/ ProbeProject(g) \/ ProbeFallback(g)
          \/ ProbeUpsert(g) \/ ProbeRelease(g) \/ ProbeDone(g)

\* scan and the probes take their steps: every probe terminates
SpecConfig ==
    StartConfig /\ [][NextConfig]_vars
                /\ WF_vars(ScanStep) /\ WF_vars(AnyProbeStep)

(***************************************************************************)
(* Properties of the registry.                                             *)
(***************************************************************************)
\* C1: after any sequence of Upsert and Prune calls on an empty Registry,
\* every entry (s -> B) of by_slug has by_port[B.port] = s.
C1_PortIndexOfEveryBackend ==
    \A s \in Slugs :
        backends[s].Port \in DOMAIN byPort /\ byPort[backends[s].Port] = s

\* a project change on a port has just removed one Backend while another stays
C1_Witness ==
    /\ last.op = "Upsert" /\ last.changed
    /\ Cardinality(Slugs) >= 2

\* C2: by_port is injective: no two distinct ports map to the same slug.
C2_ByPortInjective ==
    \A p, q \in DOMAIN byPort : byPort[p] = byPort[q] => p = q

\* C3: no two Backends stored in by_slug have the same port.
C3_PortsUnique ==
    \A s, u \in Slugs : backends[s].Port = backends[u].Port => s = u

\* two projects with the same slug are registered, on different ports
C3_Witness ==
    /\ last.op = "Upsert" /\ last.collided
    /\ \E s, u \in Slugs : s # u /\ backends[s].Port # backends[u].Port

\* the slug a new Backend is expected under: slugify(path), or
\* slugify(path) + "-" + port after a collision
ExpectedSlug(call) ==
    IF call.collided
    THEN SlugFor(call.path) \o <<"-">> \o Itoa(call.port)
    ELSE SlugFor(call.path)

\* C4: when Upsert(port, name, path, version) returns new, a Lookup of
\* slugify(path), or of slugify(path) + "-" + port after a collision, hits
\* and returns a Backend with exactly the upserted port, name, path and version.
C4_NewIsFoundWithItsFields ==
    (last.op = "Upsert" /\ last.isNew) =>
        LET found == Lookup(ExpectedSlug(last))
        IN  /\ found.ok
            /\ found.b.Port = last.port
            /\ found.b.ProjectName = last.name
            /\ found.b.ProjectPath = last.path
            /\ found.b.Version = last.version

\* Upsert has returned new for a Backend it had to disambiguate
C4_Witness ==
    /\ last.op = "Upsert" /\ last.isNew /\ last.collided
    /\ Lookup(ExpectedSlug(last)).ok

\* C5: Upsert(port, name, path, version) returns not-new whenever a Backend
\* with that port and that project_path is already registered; it then only
\* overwrites the mutable fields of that Backend and leaves the number of
\* Backends unchanged.
C5_SamePortSamePathIsUpdate ==
    [][\A s \in Slugs :
          (/\ last'.op = "Upsert"
           /\ backends[s].Port = last'.port
           /\ backends[s].ProjectPath = last'.path)
          => /\ ~last'.isNew
             /\ Cardinality(DOMAIN backends') = Cardinality(Slugs)
             /\ backends' = [backends EXCEPT ![s] =
                    Backend(last'.port, last'.name, last'.path, s,
                            last'.version, now')]]_vars

\* C6 as claimed: if port p is registered under slug s1 and Upsert(p, _, path2, _)
\* is called with slugify(path2) # s1, then afterwards Lookup(s1) misses and
\* LookupByPort(p) returns the Backend for path2 (port p, project_path path2).
C6_OldSlugMisses ==
    [][\A p \in DOMAIN byPort :
          (/\ last'.op = "Upsert" /\ last'.port = p
           /\ SlugFor(last'.path) # byPort[p])
          => /\ byPort[p] \notin DOMAIN backends'
             /\ LookupByPort(p)'.ok
             /\ LookupByPort(p)'.b.Port = p
             /\ LookupByPort(p)'.b.ProjectPath = last'.path]_vars

\* C6, amended: under the same condition LookupByPort(p) afterwards returns the
\* Backend for path2 (port p, project_path path2), and Lookup(s1) misses
\* unless s1 is the disambiguated slug slugify(path2) + "-" + p, under which
\* the new Backend is then stored.
C6_PortServesNewProject ==
    [][\A p \in DOMAIN byPort :
          (/\ last'.op = "Upsert" /\ last'.port = p
           /\ SlugFor(last'.path) # byPort[p])
          => /\ LookupByPort(p)'.ok
             /\ LookupByPort(p)'.b.Port = p
             /\ LookupByPort(p)'.b.ProjectPath = last'.path
             /\ \/ byPort[p] \notin DOMAIN backends'
                \/ /\ byPort[p] = SlugFor(last'.path) \o <<"-">> \o Itoa(p)
                   /\ byPort'[p] = byPort[p]]_vars

\* the project on a port has just changed to one with another slug
C6_Witness ==
    /\ last.op = "Upsert" /\ last.changed /\ ~last.collided
    /\ LookupByPort(last.port).ok
    /\ LookupByPort(last.port).b.ProjectPath = last.path

\* C7: if a Backend with project_path P is registered on port p1, then after
\* Upsert(p2, _, P, _) with p2 # p1 there is exactly one Backend with
\* project_path P, its port is p2, LookupByPort(p1) misses and
\* LookupByPort(p2) hits with that Backend's slug.
C7_PortReassignment ==
    [][\A s \in Slugs :
          (/\ last'.op = "Upsert"
           /\ backends[s].ProjectPath = last'.path
           /\ backends[s].Port # last'.port)
          => LET holders == {u \in DOMAIN backends' :
                               backends'[u].ProjectPath = last'.path}
             IN  /\ Cardinality(holders) = 1
                 /\ \A u \in holders :
                        /\ backends'[u].Port = last'.port
                        /\ last'.port \in DOMAIN byPort'
                        /\ byPort'[last'.port] = u
                 /\ backends[s].Port \notin DOMAIN byPort']_vars

\* C8: when Upsert(port, _, path, _) finds s = slugify(path) held by a Backend
\* with a different project_path and a different port, the new Backend is
\* inserted under s + "-" + port, the Backend stored under s is left
\* unchanged, and Upsert returns new.
C8_CollisionDisambiguated ==
    [][LET s == SlugFor(last'.path)
           key == s \o <<"-">> \o Itoa(last'.port)
       IN  (/\ last'.op = "Upsert"
            /\ s \in Slugs
            /\ backends[s].ProjectPath # last'.path
            /\ backends[s].Port # last'.port)
           => /\ last'.isNew
              /\ s \in DOMAIN backends' /\ backends'[s] = backends[s]
              /\ key \in DOMAIN backends'
              /\ backends'[key] = Backend(last'.port, last'.name, last'.path,
                                          key, last'.version, now')]_vars

\* a Backend has just been inserted beside the holder of its slug
C8_Witness ==
    /\ last.op = "Upsert" /\ last.collided /\ last.isNew
    /\ SlugFor(last.path) \in Slugs
    /\ backends[SlugFor(last.path)].ProjectPath # last.path
    /\ backends[SlugFor(last.path)].Port # last.port

\* C9: Upsert(port, _, path, _) never removes or replaces a Backend B with
\* B.port # port and B.project_path # path.
C9_UpsertKeepsOtherBackends ==
    [][\A s \in Slugs :
          (/\ last'.op = "Upsert"
           /\ backends[s].Port # last'.port
           /\ backends[s].ProjectPath # last'.path)
          => s \in DOMAIN backends' /\ backends'[s] = backends[s]]_vars

\* C10: Prune removes from by_slug and by_port exactly the Backends whose age
\* now - last_seen exceeds stale_after, returns exactly their slugs and leaves
\* every other Backend and index entry unchanged; no Backend older than
\* stale_after remains.
C10_PruneRemovesExactlyStale ==
    [][last'.op = "Prune" =>
          LET old == {s \in Slugs : now' - backends[s].LastSeen > StaleAfter}
              oldPorts == {backends[s].Port : s \in old}
          IN  /\ last'.removed = old
              /\ DOMAIN backends' = Slugs \ old
              /\ \A s \in Slugs \ old : backends'[s] = backends[s]
              /\ DOMAIN byPort' = DOMAIN byPort \ oldPorts
              /\ \A p \in DOMAIN byPort \ oldPorts : byPort'[p] = byPort[p]
              /\ \A s \in DOMAIN backends' :
                     now' - backends'[s].LastSeen <= StaleAfter]_vars

\* Prune has just removed a stale Backend and kept a fresh one
C10_Witness ==
    /\ last.op = "Prune" /\ last.removed # {}
    /\ Slugs # {}
    /\ \A s \in last.removed : s \notin Slugs

\* C11: Lookup, LookupByPort, LookupByPath, All, Slugs and Len leave by_slug
\* and by_port unchanged, and mutating what they return never changes what a
\* later lookup returns.
C11_ReadsLeaveRegistry ==
    [][last'.op \in ReadOps =>
          /\ backends' = backends
          /\ byPort' = byPort
          /\ \A slug \in Slugs : Lookup(slug)' = Lookup(slug)
          /\ \A port \in Ports : LookupByPort(port)' = LookupByPort(port)
          /\ \A path \in Paths : LookupByPath(path)' = LookupByPath(path)
          /\ All' = All]_vars

\* All has returned two records and the caller has mutated both
C11_Witness ==
    /\ last.op = "All"
    /\ RegistryLen >= 2

\* C18: LookupByPath(path) returns a Backend whose project_path equals path
\* whenever one is registered; only when none is registered does it return the
\* Backend stored under slugify(path); it misses when neither exists.
C18_LookupByPathOrder ==
    \A path \in Paths : \A r \in LookupByPath(path) :
        IF \E s \in Slugs : backends[s].ProjectPath = path
        THEN r.ok /\ r.b.ProjectPath = path
        ELSE IF SlugFor(path) \in Slugs
        THEN r.ok /\ r.b = backends[SlugFor(path)]
        ELSE ~r.ok

\* a path is registered under a disambiguated slug while another project
\* holds its slug, and a third path is found only through its slug
C18_Witness ==
    /\ \E s \in Slugs : backends[s].ProjectPath = PathA /\ s # SlugFor(PathA)
    /\ SlugFor(PathA) \in Slugs
    /\ \E path \in Paths :
          /\ \A s \in Slugs : backends[s].ProjectPath # path
          /\ SlugFor(path) \in Slugs

(***************************************************************************)
(* Properties of the registry under concurrent callers.                    *)
(***************************************************************************)
\* the result the read of goroutine th gives when done at once
AtomicResult(th) ==
    IF threads[th].op = "Lookup" THEN Lookup(threads[th].slug)
    ELSE LookupByPort(threads[th].port)

\* C12: with Upsert, Prune and the reads invoked concurrently, every operation
\* takes effect atomically: whenever no writer is inside, the maps are what
\* the operations give when done one after the other in the order of their
\* returns; while a reader is inside, the maps are such a state; and what a
\* read returns is what the read gives on such a state.
C12_OperationsAtomic ==
    /\ mu.writer = "none" => heap = Memory
    /\ \A th \in Readers :
          /\ th \in mu.readers => heap = Memory
          /\ threads[th].pc = "ret" => threads[th].result = AtomicResult(th)

\* a writer is part-way through an Upsert (the fields are written, the port
\* index is not) while the reader is outside and another writer waits
C12_Witness ==
    /\ \E w \in Writers : mu.writer = w /\ threads[w].pc = "u73"
    /\ heap.backends # backends
    /\ \A th \in Readers : threads[th].pc = "idle"
    /\ RegistryLen >= 2

(***************************************************************************)
(* Properties of the router.                                               *)
(***************************************************************************)
\* the registered slugs whose domain, with or without port, is the Host
ViaHost ==
    {s \in Slugs : request.host \in {DomainFor(s, RouterUsername),
                                    DomainFor(s, RouterUsername) \o HostPort}}

\* the registered slugs that are the first segment of the path
ViaPath ==
    {s \in Slugs : \/ request.path = <<"/">> \o s
                  \/ HasPrefix(request.path, <<"/">> \o s \o <<"/">>)}

\* the handler of the control API for a path
ApiKind(path) ==
    IF path = ApiBackendsPath THEN "backends"
    ELSE IF path = ApiHealthPath THEN "health"
    ELSE "resolve"

\* C13: every request is classified in the order host proxy, path proxy,
\* control API, dashboard: a Host of a registered slug is proxied to that
\* slug's backend with the path untouched, whatever the path; otherwise a
\* path whose first segment is a registered slug is proxied to that slug's
\* backend; otherwise an API path is answered by the control API; everything
\* else is answered with the dashboard.
C13_ClassifiedInOrder ==
    request # NoRequest =>
        IF ViaHost # {}
        THEN \E s \in ViaHost :
                response = [kind |-> "proxy", slug |-> s,
                            port |-> backends[s].Port, path |-> request.path]
        ELSE IF ViaPath # {}
        THEN \E s \in ViaPath :
                /\ response.kind = "proxy"
                /\ response.slug = s
                /\ response.port = backends[s].Port
        ELSE IF request.path \in ApiPaths
        THEN response.kind = ApiKind(request.path)
        ELSE response.kind = "dashboard"

\* the Host is that of p while the path is an API path whose first segment,
\* api, is registered as well: the request went to p, path untouched
C13_Witness ==
    /\ request.host = DomainFor(SlugP, RouterUsername)
    /\ request.path = ApiBackendsPath
    /\ {SlugP, SlugApi} \subseteq Slugs
    /\ response.kind = "proxy"
    /\ response.slug = SlugP
    /\ response.path = ApiBackendsPath

\* C14: for a registered slug s and a suffix t that is empty or begins with
\* "/", a request with path "/" + s + t that is not matched by host reaches
\* the backend of s with path t, or "/" when t is empty.
C14_FirstSegmentStripped ==
    request # NoRequest =>
        \A s \in Slugs, t \in PathSuffixes :
            (request.path = <<"/">> \o s \o t /\ ViaHost = {}) =>
                response = [kind |-> "proxy", slug |-> s,
                            port |-> backends[s].Port,
                            path |-> IF t = <<>> THEN <<"/">> ELSE t]

\* "/p-4097/x/y" reached the backend of the disambiguated slug as "/x/y"
C14_Witness ==
    /\ request.path = <<"/">> \o CollisionSlug(SlugP, 4097) \o <<"/", "x", "/", "y">>
    /\ response.kind = "proxy"
    /\ response.slug = CollisionSlug(SlugP, 4097)
    /\ response.path = <<"/", "x", "/", "y">>

\* the answer of the backend named api to an API path: "/api" stripped
ProxiedToApi ==
    [kind |-> "proxy", slug |-> SlugApi, port |-> backends[SlugApi].Port,
     path |-> TrimPrefix(request.path, <<"/">> \o SlugApi)]

\* C16 as stated: when a slug named api is registered, requests to the three
\* API paths are path-proxied to it with "/api" stripped, whatever the Host;
\* when none is registered and the host does not match, they are answered by
\* the control API.
C16_ApiSlugShadowsWhateverHost ==
    (request # NoRequest /\ request.path \in ApiPaths) =>
        /\ SlugApi \in Slugs => response = ProxiedToApi
        /\ (SlugApi \notin Slugs /\ ViaHost = {}) =>
              response.kind = ApiKind(request.path)

\* C16, amended: when a slug named api is registered and the host does not
\* match a registered slug, requests to the three API paths are path-proxied
\* to it with "/api" stripped; when none is registered and the host does not
\* match, they are answered by the control API.
C16_ApiSlugShadows ==
    (request # NoRequest /\ request.path \in ApiPaths /\ ViaHost = {}) =>
        /\ SlugApi \in Slugs => response = ProxiedToApi
        /\ SlugApi \notin Slugs => response.kind = ApiKind(request.path)

\* /api/health went to the backend named api as /health
C16_Witness ==
    /\ request.path = ApiHealthPath
    /\ ViaHost = {}
    /\ SlugApi \in Slugs
    /\ response = ProxiedToApi
    /\ response.path = <<"/", "h", "e", "a", "l", "t", "h">>

\* C17: /api/resolve answers 405 for a non-GET method, 400 when neither path
\* nor name is given, 404 with error "not_found" and the queried value in
\* query when the lookup misses, and otherwise the record of the Backend found
\* by LookupByPath(path) for a path query or by Lookup(slugify(name)) for a
\* name query.
C17_ResolveAnswers ==
    (request.path = ApiResolvePath /\ ViaHost = {} /\ ViaPath = {}) =>
        /\ response.kind = "resolve"
        /\ IF request.method # "GET"
           THEN response.status = StatusMethodNotAllowed
           ELSE IF request.qpath = <<>> /\ request.qname = <<>>
           THEN response.status = StatusBadRequest
           ELSE IF request.qpath # <<>>
           THEN \E r \in LookupByPath(request.qpath) :
                   IF r.ok
                   THEN /\ response.status = StatusOK
                        /\ response.info = BackendInfo(r.b)
                   ELSE /\ response.status = StatusNotFound
                        /\ response.error = "not_found"
                        /\ response.query = request.qpath
           ELSE LET r == Lookup(Slugify(request.qname))
                IN  IF r.ok
                    THEN /\ response.status = StatusOK
                         /\ response.info = BackendInfo(r.b)
                    ELSE /\ response.status = StatusNotFound
                         /\ response.error = "not_found"
                         /\ response.query = request.qname

\* the name query gives the path of a registered project whose slug another
\* project holds: the answer is the holder of the slug, not the project
C17_Witness ==
    /\ request.path = ApiResolvePath
    /\ request.method = "GET"
    /\ request.qpath = <<>>
    /\ request.qname = PathA
    /\ response.kind = "resolve"
    /\ response.status = StatusOK
    /\ response.info.project_path = PathB
    /\ \E s \in Slugs : backends[s].ProjectPath = PathA

(***************************************************************************)
(* Properties of the pure functions.                                       *)
(***************************************************************************)
\* a slug as the registry makes them: non-empty, of [a-z0-9-], no hyphen at
\* either end, no two hyphens in a row
IsSlug(s) ==
    /\ s # <<>>
    /\ \A i \in DOMAIN s : SlugChar(s[i])
    /\ s[1] # "-"
    /\ s[Len(s)] # "-"
    /\ \A i \in 1..(Len(s) - 1) : ~(s[i] = "-" /\ s[i + 1] = "-")

\* a host with its ":port" stripped, if it has one
StripPort(host) ==
    IF LastIndex(host, ":") # 0
    THEN SubSeq(host, 1, LastIndex(host, ":") - 1) ELSE host

\* C15: host parsing inverts domain construction: for every non-empty slug
\* s, slugFromHost(DomainFor(s)) = s, also with ":<port>" appended; a host
\* that lacks the ".local" suffix, lacks the "-<username>" suffix or leaves an
\* empty remainder yields no match.
C15_HostInvertsDomain ==
    (arg.fn = "slugFromHost" /\ out.done) =>
        /\ \A s \in HostLabels :
              (IsSlug(s) /\ arg.host \in
                    {DomainFor(s, arg.username),
                     DomainFor(s, arg.username) \o HostPort}) => out.v = s
        /\ ~HasSuffix(StripPort(arg.host), DotLocal) => out.v = <<>>
        /\ ~HasSuffix(TrimSuffix(StripPort(arg.host), DotLocal),
                      <<"-">> \o arg.username) => out.v = <<>>
        /\ StripPort(arg.host) = <<"-">> \o arg.username \o DotLocal
              => out.v = <<>>

ProbesOf(pass) == {g \in DOMAIN probes : g[1] = pass}

\* C20: within a scan pass, Prune is called only after every probe launched
\* in that pass has completed: once a pass has pruned, each of its probes has
\* returned and is done, so none of them performs its Upsert after the Prune.
C20_PruneAfterProbes ==
    \A pass \in DOMAIN passes :
        passes[pass].pruned => \A g \in ProbesOf(pass) : probes[g].pc = "done"

\* the first pass has probed every port, registered what it found and pruned
C20_Witness ==
    /\ 1 \in DOMAIN passes
    /\ passes[1].pruned
    /\ Cardinality(ProbesOf(1)) = Cardinality(ScanPorts)
    /\ RegistryLen >= 2

\* the probes of a pass that hold a slot of its semaphore
InFlight(pass) ==
    {g \in ProbesOf(pass) :
        probes[g].pc \in {"health", "project", "fallback", "upsert", "exit"}}

\* C21: at every moment of a scan pass at most scan_concurrency probes are
\* running concurrently: the probes of a pass that have been launched and
\* have not given their slot back number at most ScanConcurrency.
C21_AtMostConcurrency ==
    \A pass \in DOMAIN passes : Cardinality(InFlight(pass)) <= ScanConcurrency

\* scan is held at the semaphore while as many probes as allowed run
C21_Witness ==
    /\ scanner.pc = "acquire"
    /\ Cardinality(InFlight(scanner.pass)) = ScanConcurrency

\* C22: once the shutdown signal has fired, the scanner starts no new scan:
\* no scan pass is begun and no probe is launched after cancellation.  A
\* pass counts as begun when scan goes past its test of ctx for a port, not
\* when scan is merely called and returns at that test.
C22_NothingStartedAfterCancel ==
    [][ctxDone => /\ scanner'.pc = "acquire" => scanner.pc = "acquire"
                  /\ DOMAIN probes' \subseteq DOMAIN probes]_vars

\* C22 as the code has it: after cancellation scan goes past its test of ctx
\* for no port, so a pass begun after cancellation launches no probe, and a
\* pass under way launches at most one, for the port whose test it had
\* passed before the cancellation.
C22_NoPortTakenUpAfterCancel ==
    [][ctxDone => /\ scanner'.pc = "acquire" => scanner.pc = "acquire"
                  /\ scanner.pc # "acquire" =>
                        DOMAIN probes' \subseteq DOMAIN probes]_vars

\* a pass was cut short by the cancellation: it has left ports unprobed and
\* has not pruned
C22_Witness ==
    /\ ctxDone
    /\ scanner.pc \in {"select", "stopped"}
    /\ ~passes[scanner.pass].pruned
    /\ ProbesOf(scanner.pass) # {}
    /\ Cardinality(ProbesOf(scanner.pass)) < Cardinality(ScanPorts)

\* the health request of a probe did not give a healthy instance
HealthFailed(probe) == probe.health \in {"error", "unhealthy"}

\* C24: a probe whose health request fails (transport, status, JSON) or
\* reports healthy == false performs no Upsert: the step in which the
\* request fails and every later step of that probe leave the registry as
\* it is.
C24_FailedHealthNoUpsert ==
    [][\A g \in DOMAIN probes \cap DOMAIN probes' :
          (probes'[g] # probes[g] /\ HealthFailed(probes'[g]))
              => backends' = backends /\ byPort' = byPort]_vars

\* two probes have ended, one after an error and one after an unhealthy answer
C24_Witness ==
    \E g, h \in DOMAIN probes :
        /\ probes[g].pc = "done" /\ probes[g].health = "error"
        /\ probes[h].pc = "done" /\ probes[h].health = "unhealthy"
        /\ ~ctxDone

\* C25: when the health request succeeds with healthy == true but the project
\* request fails, the probe upserts the port with name "port-<port>" and path
\* "/unknown/port-<port>"; when the project request succeeds with an empty
\* path it upserts with path "/unknown/<id>"; when the project request
\* succeeds the name is the last segment of the path used.
C25_UpsertOfProbe ==
    [][\A g \in DOMAIN probes \cap DOMAIN probes' :
          (probes[g].pc \in {"fallback", "upsert"} /\ probes'[g].pc = "exit")
              => /\ probes[g].health = "healthy"
                 /\ last'.op = "Upsert"
                 /\ last'.port = g[2]
                 /\ probes[g].project = "error" =>
                       /\ last'.name = <<"p", "o", "r", "t", "-">> \o Itoa(g[2])
                       /\ last'.path = <<"/", "u", "n", "k", "n", "o", "w", "n",
                                         "/", "p", "o", "r", "t", "-">> \o Itoa(g[2])
                 /\ probes[g].project = "ok" =>
                       /\ last'.path =
                             IF InstanceAt(g[2]).path = <<>>
                             THEN <<"/", "u", "n", "k", "n", "o", "w", "n", "/">>
                                      \o InstanceAt(g[2]).id
                             ELSE InstanceAt(g[2]).path
                       /\ last'.name = Base(last'.path)]_vars

\* a port is registered under its made-up name, and the project without a
\* path has just been upserted under the path made of its id
C25_Witness ==
    /\ \E s \in Slugs, port \in ScanPorts :
          /\ backends[s].Port = port
          /\ backends[s].ProjectPath = UnknownPath(port)
    /\ last.op = "Upsert"
    /\ \E port \in ScanPorts :
          /\ InstanceAt(port).path = <<>>
          /\ last.port = port
          /\ last.path = UnknownIdPath(InstanceAt(port).id)

\* C26: after a scan pass that runs to completion without cancellation,
\* every port of the range whose instance answered the health probe with
\* healthy == true during that pass is registered (LookupByPort(port) hits
\* with that port, the version and, when the instance reported one, the
\* project path), and no port whose health probe failed was added by the pass.
C26_HealthyPortsRegistered ==
    (scanner.pc = "select" /\ passes[scanner.pass].pruned /\ ~ctxDone) =>
        \A g \in ProbesOf(scanner.pass) :
            LET port == g[2]
                found == LookupByPort(port)
            IN  IF probes[g].health = "healthy"
                THEN /\ found.ok
                     /\ found.b.Port = port
                     /\ found.b.Version = InstanceAt(port).version
                     /\ (probes[g].project = "ok" /\ InstanceAt(port).path # <<>>)
                            => found.b.ProjectPath = InstanceAt(port).path
                ELSE \A s \in Slugs :
                        backends[s].Port = port => backends[s].LastSeen # now

BackendsOf(port) == {s \in Slugs : Lookup(s).ok /\ Lookup(s).b.Port = port}

\* C27: if an instance stops answering probes while scan passes keep running
\* (a further pass is still to come), its Backend is eventually removed from
\* the registry by a pass's Prune, and from then on no slug is routed to its
\* port.
C27_StoppedInstancePruned ==
    (/\ StoppingPort \notin answering
     /\ BackendsOf(StoppingPort) # {}
     /\ now + ScanInterval <= MaxTime)
        ~> [](BackendsOf(StoppingPort) = {})

\* a Prune has removed Backends, and an instance that stopped has none left
C27_Witness ==
    /\ last.op = "Prune"
    /\ last.removed # {}
    /\ \E port \in ScanPorts \ answering :
          /\ BackendsOf(port) = {}
          /\ \A s \in Slugs : backends[s].LastSeen = now

(***************************************************************************)
(* Properties of the advertiser.                                           *)
(***************************************************************************)

\* the step is a call of Sync
SyncStep == advLast'.op = "Sync"

\* the handles that were live before the step for the slugs of a set
HandlesOf(slugs) == {servers[slug] : slug \in slugs \cap DOMAIN servers}

\* C28: when Sync(snapshot) returns and every registration it attempted
\* succeeded, the advertised slugs are exactly the slugs of snapshot: every
\* slug advertised before and absent from snapshot has had its handle shut
\* down and is forgotten, and every slug of snapshot is advertised.
C28_SyncReconciles ==
    [][(SyncStep /\ advLast'.failed = {}) =>
        LET current == SlugsOf(advLast'.snapshot)
            absent == DOMAIN servers \ current
        IN  /\ DOMAIN servers' = current
            /\ advLast'.removed = absent
            /\ \A h \in HandlesOf(absent) :
                   /\ handles'[h].downs = handles[h].downs + 1
                   /\ \A slug \in DOMAIN servers' : servers'[slug] # h
            /\ \A slug \in current :
                   handles'[servers'[slug]].instance = slug]_vars

\* a Sync without failure has torn one service down and registered another
C28_Witness ==
    /\ advLast.op = "Sync"
    /\ advLast.failed = {}
    /\ advLast.removed # {}
    /\ advLast.tried # {}

\* C29: a Sync whose snapshot contains a slug that is already advertised
\* neither shuts its handle down nor registers it again, so a second Sync
\* with the same snapshot, after a first one without failure, leaves the
\* live handles as they were.
C29_SyncKeepsLiveHandles ==
    [][SyncStep =>
        /\ \A slug \in DOMAIN servers \cap SlugsOf(advLast'.snapshot) :
               /\ slug \in DOMAIN servers'
               /\ servers'[slug] = servers[slug]
               /\ handles'[servers[slug]] = handles[servers[slug]]
               /\ slug \notin advLast'.tried
        /\ (advLast'.again /\ advLast.failed = {}) =>
               /\ servers' = servers
               /\ handles' = handles
               /\ advLast'.tried = {}
               /\ advLast'.removed = {}]_vars

\* Sync has been called a second time with a snapshot of two Backends, both
\* advertised since the first call
C29_Witness ==
    /\ advLast.op = "Sync"
    /\ advLast.again
    /\ Len(advLast.snapshot) = 2
    /\ advLast.tried = {}
    /\ DOMAIN servers = SlugsOf(advLast.snapshot)

\* C30: a slug whose registration fails during Sync is not recorded as
\* advertised, the other slugs of the same Sync are still processed (those
\* gone are torn down, those that register are advertised), and a Sync
\* whose snapshot contains a slug that is not advertised, as the one that
\* failed, attempts its registration.
C30_FailedRegistrationRetried ==
    [][SyncStep =>
        LET current == SlugsOf(advLast'.snapshot)
        IN  /\ \A slug \in advLast'.failed :
                   /\ slug \in advLast'.tried
                   /\ slug \notin DOMAIN servers'
            /\ DOMAIN servers' = current \ advLast'.failed
            /\ \A h \in HandlesOf(DOMAIN servers \ current) :
                   handles'[h].downs = handles[h].downs + 1
            /\ \A slug \in current \ DOMAIN servers :
                   slug \in advLast'.tried
            /\ (advLast.op = "Sync") =>
                   advLast.failed \cap current \subseteq advLast'.tried]_vars

\* of the two slugs of a Sync the first failed to register and the second
\* is advertised
C30_Witness ==
    /\ advLast.op = "Sync"
    /\ Len(advLast.snapshot) = 2
    /\ advLast.failed = {advLast.snapshot[1].Slug}
    /\ DOMAIN servers = {advLast.snapshot[2].Slug}

\* the step is a call of Advertiser.Shutdown
ShutdownStep == advLast'.op = "Shutdown"

\* the handles of the live registrations
LiveHandles == {servers[slug] : slug \in DOMAIN servers}

\* C31: Shutdown shuts down the handle of every live registration, and no
\* other, and leaves no slug advertised; a Shutdown that follows a Shutdown
\* shuts nothing down and leaves the handles and the empty map as they were.
C31_ShutdownClearsAndIsIdempotent ==
    [][ShutdownStep =>
        /\ servers' = EmptyMap
        /\ Len(handles') = Len(handles)
        /\ \A h \in DOMAIN handles :
               handles'[h] =
                   IF h \in LiveHandles
                   THEN [handles[h] EXCEPT !.downs = handles[h].downs + 1]
                   ELSE handles[h]
        /\ advLast'.removed = DOMAIN servers
        /\ advLast'.again =>
               /\ advLast'.removed = {}
               /\ handles' = handles
               /\ servers' = servers]_vars

\* a second Shutdown has followed one that shut two registrations down
C31_Witness ==
    /\ advLast.op = "Shutdown"
    /\ advLast.again
    /\ servers = EmptyMap
    /\ Cardinality({h \in DOMAIN handles : handles[h].downs = 1}) >= 2

\* C40: whatever Sync and Shutdown calls were made, no handle the
\* Advertiser obtained has been shut down twice, a handle has been shut down
\* exactly when it is no longer in the map, and after a Shutdown every
\* handle ever obtained has been shut down exactly once.
C40_HandlesShutDownOnce ==
    /\ \A h \in DOMAIN handles :
           /\ handles[h].downs <= 1
           /\ handles[h].downs = 0 <=> h \in LiveHandles
    /\ LiveHandles \subseteq DOMAIN handles
    /\ advLast.op = "Shutdown" =>
           \A h \in DOMAIN handles : handles[h].downs = 1

\* a Shutdown has come after handles were shut down by Sync and others
\* were still live
C40_Witness ==
    /\ advLast.op = "Shutdown"
    /\ advLast.removed # {}
    /\ Len(handles) > Cardinality(advLast.removed)

\* C39: when Sync(snapshot) has returned without a failed registration, the
\* TXT record advertised for every slug of snapshot is made of the fields of
\* the Backend snapshot holds for that slug.
C39_TxtFollowsSnapshot ==
    (advLast.op = "Sync" /\ advLast.failed = {}) =>
        \A i \in DOMAIN advLast.snapshot :
            LET b == advLast.snapshot[i]
            IN  /\ b.Slug \in DOMAIN servers
                /\ handles[servers[b.Slug]].txt = Txt(b)

(***************************************************************************)
(* Properties of main.                                                     *)
(***************************************************************************)

\* C32: in the shutdown sequence of main (cancel, then Advertiser.Shutdown),
\* once Shutdown has returned no mDNS registration is live up to the exit
\* of the process: the sync loop makes no later Sync that registers a
\* service again.
C32_NoRegistrationAfterShutdown ==
    mainPc \in {"advDown", "exited"} => servers = EmptyMap

(***************************************************************************)
(* Properties of the launcher.                                             *)
(***************************************************************************)

\* the ports of the processes the Launcher manages
ProcPorts == {procs[i].port : i \in DOMAIN procs}

\* no port of the range is left: each is listened on or was given to a
\* process
NoFreePort == \A port \in LaunchRange : port \in inUse \/ port \in ProcPorts

\* a turn of Launch's loop for a directory
LaunchTurn ==
    /\ launcher.pc = "running"
    /\ launcher.paths # <<>>
    /\ Head(launcher.paths).isDir
    /\ launcher'.paths # launcher.paths \/ launcher'.pc = "returned"

\* C33: Launch gives every process it starts a port of [portStart, portEnd]
\* that nothing listened on and that no other process it started has, and
\* when no port of the range is free it returns an error and starts no
\* process.
C33_LaunchPortsFreeAndInRange ==
    [][/\ (Len(procs') > Len(procs)) =>
              LET port == procs'[Len(procs')].port
              IN  /\ port \in LaunchRange
                  /\ port \notin inUse
                  /\ port \notin ProcPorts
       /\ (LaunchTurn /\ NoFreePort) =>
              (launcher'.err /\ procs' = procs)]_vars

\* C34: after any sequence of Upsert and Prune calls every value of by_port
\* is a key of by_slug, so that LookupByPort has a Backend to copy for every
\* port it finds in by_port.
C34_ByPortPointsToBackend ==
    \A port \in DOMAIN byPort :
        /\ byPort[port] \in Slugs
        /\ LookupByPort(port) = Hit(backends[byPort[port]])

\* C36: no two registered Backends have the same project_path, so the
\* exact-match branch of LookupByPath has at most one Backend to return.
C36_PathsUnique ==
    \A s, u \in Slugs :
        backends[s].ProjectPath = backends[u].ProjectPath => s = u

\* C35: a Backend keeps its slug while it stays registered: after an Upsert
\* with its port and its project_path, after an Upsert of another port for
\* another project, and after a Prune for which it is not stale, the
\* Backend of that port and project_path is still stored under the slug it
\* had.
C35_SlugStable ==
    [][\A s \in Slugs :
          LET b == backends[s]
          IN  (\/ /\ last'.op = "Upsert"
                  /\ last'.port = b.Port
                  /\ last'.path = b.ProjectPath
               \/ /\ last'.op = "Upsert"
                  /\ last'.port # b.Port
                  /\ last'.path # b.ProjectPath
               \/ /\ last'.op = "Prune"
                  /\ ~Stale(b, now'))
              => /\ s \in DOMAIN backends'
                 /\ backends'[s].Port = b.Port
                 /\ backends'[s].ProjectPath = b.ProjectPath]_vars

\* scan is not running: Run waits in its select or has returned
ScanReturned == scanner.pc \in {"select", "stopped"}

\* the step is an Upsert of a probe
UpsertStep ==
    /\ last'.op = "Upsert"
    /\ <<backends, byPort, last>> # <<backends', byPort', last'>>

\* C37: once Scanner.Run, or a scan pass cut short by the cancellation, has
\* returned, no probe of the scanner is still running, and no Upsert reaches
\* the registry while no pass is under way.
C37_NoProbeAfterReturn ==
    [][/\ ScanReturned' => \A g \in DOMAIN probes' : probes'[g].pc = "done"
       /\ ScanReturned => ~UpsertStep]_vars

(***************************************************************************)
(* Properties of the configuration.                                        *)
(***************************************************************************)

\* C38: with any configuration Validate accepts, a scan pass that has begun
\* terminates, its probes terminating: it launches a probe for every port
\* of the range, waits for them, prunes and returns to Run.
C38_ScanPassTerminates ==
    (scanner.pc = "loop")
        ~> (/\ scanner.pc = "select"
            /\ passes[scanner.pass].pruned
            /\ Cardinality(ProbesOf(scanner.pass)) = Cardinality(ScanPorts))

====
